---------------------------- MODULE Spec2Model ----------------------------
(***************************************************************************)
(* Model of the Tattelecom intercom VoIP core: the SIP endpoint            *)
(* (sip.py: IntercomSip), the VoIP coordinator and its calls (voip.py:     *)
(* IntercomVoip, Call) and the RTP transport (rtp.py: RtpClient,           *)
(* RtpPacketManager).                                                      *)
(*                                                                         *)
(* The program runs on one cooperative event loop.  A task runs without    *)
(* interruption between two suspending awaits (asyncio.sleep, waiting for  *)
(* a lock held by someone else); `running` names the task that is in the   *)
(* middle of such an uninterruptible stretch, so that the stretch can be   *)
(* written as several steps without adding interleavings.                  *)
(***************************************************************************)
EXTENDS Integers, Sequences, FiniteSets, TLC

\* ------------------------------------------------------------------ bounds
\* recv/ping task objects that can exist at once (live or not yet unwound)
MaxLoops == 2
\* handshake attempts of one sip.start()/sip.stop() (the code's recursion is unbounded)
MaxAttempts == 2
\* largest total_retry given to safe_start
MaxRetry == 1
\* operations the API caller invokes in one behaviour
MaxOps == 2
\* expiries of the re-register timer in one behaviour
MaxFires == 1
\* Call-IDs the server uses, Call objects that can be created, RTP ports in
\* the pool (the code's pool is 10000..20000)
MaxCallIds == 1
MaxObjs == 1
MaxPorts == 2
\* local call operations (answer, decline, hangup) in one behaviour
MaxCallOps == 2
\* the interpreter's default recursion limit (sys.getrecursionlimit()): the
\* most coroutine frames one task can nest
RecursionLimit == 1000

\* --------------------------------------------------------- program constants
SIP_EXPIRES == 3600
SIP_RETRY_SLEEP == 5

\* ------------------------------------------------------------------ tasks
\* the caller of the coordinator's API (start, stop, safe_start)
ApiT == MaxLoops + 1
\* the task created by the re-register timer (IntercomSip._safe_register)
TimerT == MaxLoops + 2
Tasks == {ApiT, TimerT}
\* the task running a local call operation (answer, decline, hangup)
CallT == MaxLoops + 3
LoopIds == 1..MaxLoops
NoTask == 0
\* the task created by a call's _re_answer timer
ReT == MaxLoops + 4
\* the tasks that can be inside a call operation
\* the task a clean_call timer creates
ReapT == MaxLoops + 5
FrameTasks == LoopIds \cup {ApiT, CallT, ReT, ReapT}

VARIABLES
    status,        \* IntercomVoip.status
    status_log,    \* the last three values given to _change_status, oldest first
    sip_started,   \* IntercomSip._started
    recv_lock,     \* IntercomSip._recv_lock: [locked, waiters, woken]
    sock,          \* IntercomSip._in/_out: "none", "open" or "closed"
    internet,      \* IntercomSip._internet_connect
    register_loop, \* IntercomSip.register_loop: [delay, st]
    orphans,       \* armed timer handles register_loop no longer refers to
    recv_tasks,    \* every IntercomSip._recv task: state by id
    recv_loop,     \* IntercomSip.recv_loop: the id of the task it refers to
    ping_tasks,    \* every IntercomSip._ping task: state by id
    ping_loop,     \* IntercomSip.ping_loop
    task,          \* the API task and the timer task: position and locals
    running,       \* the task inside an uninterruptible stretch, or NoTask
    ops,           \* coordinator operations set going so far
    fires,         \* timer expiries so far
    server,        \* what the SIP server sends: "any" or "errors" (an outage)
    sleepers,      \* the tasks inside asyncio.sleep(1), in the order they began
    ev             \* what the last step completed (observation only)

sipVars == <<status, status_log, sip_started, recv_lock, sock, internet,
             register_loop, orphans, recv_tasks, recv_loop, ping_tasks,
             ping_loop, task, running, ops, fires, server, sleepers, ev>>

VARIABLES
    calls,          \* IntercomVoip.calls: Call-ID -> call object, NoCall if absent
    call,           \* every Call object ever created: state, call_id, clients
    assigned_ports, \* IntercomVoip.assigned_ports
    frame,          \* where each task stands inside a call operation
    re_answer,      \* the pending _re_answer timers of each call: how many
    call_ops,       \* local call operations that went past their state check
    reapers         \* the pending clean_call timers of each Call-ID: delays

callVars == <<calls, call, assigned_ports, frame, re_answer, call_ops,
              reapers>>

\* one RtpPacketManager with the tasks that write and read it, and one
\* RtpClient's outbound stream
VARIABLES
    pm,             \* the RtpPacketManager: _offset, _history, _buffer, the
                    \* buffer's position, _buffer_lock, _rebuilding
    pmt,            \* where the manager's writer and reader are
    stream          \* RtpClient: _out_sequence, _out_timestamp, _ssrc and
                    \* the last two packets given to sendto

mediaVars == <<pm, pmt, stream>>

\* the integration's updater and the coordinators it has created
VARIABLES
    updater         \* IntercomUpdater: the SIP settings in data, voip (the
                    \* coordinator it refers to) and every IntercomVoip it
                    \* created: where its safe_start stands, whether its
                    \* socket is bound to the local SIP port, the retry

vars == <<sipVars, callVars, mediaVars, updater>>

\* ------------------------------------------------------- server responses
\* status of a datagram read during a handshake; NoStatus is a request
\* (Message.status is None)
NoStatus == 0
\* select.select() returned nothing within SIP_TIMEOUT
Timeout == 0 - 1
\* recv() on the non-blocking socket found no datagram (BlockingIOError)
NoDatagram == 0 - 2
Statuses == {NoStatus, 100, 200, 400, 401, 403, 407, 500}

\* A script is what one handshake attempt reads: <<first read, read after a
\* 100 Trying, read after the second REGISTER>>; reads that do not happen
\* are filled with Timeout.
RegisterScripts ==
    {s \in (Statuses \cup {Timeout}) \X (Statuses \cup {NoDatagram, Timeout})
           \X (Statuses \cup {Timeout}) :
        /\ (s[1] = 100) <=> (s[2] # Timeout)
        /\ (IF s[1] = 100 THEN s[2] # 401 ELSE s[1] # 401) => s[3] = Timeout}

DeregisterScripts ==
    {s \in (Statuses \cup {Timeout}) \X {Timeout} \X (Statuses \cup {Timeout}) :
        (s[1] # 401) => s[3] = Timeout}

Retryable(m) == m = NoStatus \/ m >= 500

\* what the server answers to REGISTER: during an outage ("errors") every
\* datagram the handshake reads is a server error or a request (no status);
\* a healthy server ("ok") answers 200 at once; "any" is any of the scripts
Served(scripts) ==
    CASE server = "errors" -> {s \in scripts : Retryable(s[1])}
      [] server = "ok" -> {s \in scripts : s[1] = 200}
      [] OTHER -> scripts

\* handshake passes followed within one start() or stop(): MaxAttempts when
\* the server may send anything; during an outage, as many as the
\* interpreter allows
AttemptCap == IF server = "errors" THEN RecursionLimit + 1 ELSE MaxAttempts


\* IntercomSip._register, one pass: what it reads decides how it ends and how
\* many REGISTER datagrams it sends.
\*   "ok"       200 OK: the caller goes on to arm the timer
\*   "retry"    no status or >= 500: sleep SIP_RETRY_SLEEP, then recurse
\*   "timeout"  TimeoutError
\*   "state"    IntercomInvalidStateError (400)
\*   "account"  IntercomInvalidAccountInfoError
\*   "oserror"  BlockingIOError out of the unguarded recv after 100 Trying
RegisterAfterLock(m, n) ==
    IF m = 401 THEN [out |-> "account", sent |-> n]
    ELSE IF m = 400 THEN [out |-> "state", sent |-> n]
    ELSE IF m # 407 /\ Retryable(m) THEN [out |-> "retry", sent |-> n]
    ELSE IF m # 200 THEN [out |-> "account", sent |-> n]
    ELSE [out |-> "ok", sent |-> n]

RegisterOutcome(s) ==
    IF s[1] = Timeout THEN [out |-> "timeout", sent |-> 1]
    ELSE LET m == IF s[1] = 100 THEN s[2] ELSE s[1] IN
         IF m = NoDatagram THEN [out |-> "oserror", sent |-> 1]
         ELSE IF m = 400 THEN [out |-> "state", sent |-> 1]
         ELSE IF m = 401
              THEN IF s[3] = Timeout THEN [out |-> "timeout", sent |-> 2]
                   ELSE RegisterAfterLock(s[3], 2)
              ELSE RegisterAfterLock(m, 1)

\* IntercomSip._deregister, one pass.
DeregisterOutcome(s) ==
    IF s[1] = Timeout THEN [out |-> "timeout", sent |-> 1]
    ELSE IF s[1] = 401
         THEN IF s[3] = Timeout THEN [out |-> "timeout", sent |-> 2]
              ELSE IF Retryable(s[3]) THEN [out |-> "retry", sent |-> 2]
              ELSE [out |-> "ok", sent |-> 2]
         ELSE IF Retryable(s[1]) THEN [out |-> "retry", sent |-> 1]
         ELSE [out |-> "ok", sent |-> 1]

\* ------------------------------------------------------------ asyncio.Lock
FreeLock == [locked |-> FALSE, waiters |-> <<>>, woken |-> FALSE]

\* Lock.release() on a locked lock: the first waiter's future is completed
LockRelease(l) ==
    [l EXCEPT !.locked = FALSE, !.woken = (l.waiters # <<>>)]

\* IntercomSip._safe_release: releases the lock whoever holds it
SafeRelease(l) == IF l.locked THEN LockRelease(l) ELSE l

\* Lock.acquire() succeeds at once only when nobody waits
CanAcquire(l) == ~l.locked /\ l.waiters = <<>>

\* the end of an `async with self._recv_lock` block: release(), which raises
\* RuntimeError and changes nothing when the lock is not locked
LockExit(l) == IF l.locked THEN LockRelease(l) ELSE l

LockAcquire(l) == [l EXCEPT !.locked = TRUE]

LockEnqueue(l, who) == [l EXCEPT !.waiters = Append(l.waiters, who)]

\* the woken first waiter resumes inside acquire(): it leaves the queue and
\* takes the lock
LockResume(l) ==
    [locked |-> TRUE, waiters |-> Tail(l.waiters), woken |-> FALSE]

RemoveWaiter(q, who) == SelectSeq(q, LAMBDA w : w # who)

\* a waiter is cancelled: it leaves the queue and, when the lock is free,
\* passes the wake-up on
LockCancelWaiter(l, who) ==
    LET q == RemoveWaiter(l.waiters, who) IN
    [locked |-> l.locked, waiters |-> q,
     woken |-> IF l.locked THEN FALSE ELSE q # <<>>]

\* ------------------------------------------------------------ small helpers
NoTimer == [delay |-> 0, st |-> "none"]
Armed(d) == [delay |-> d, st |-> "armed"]

NoEv == [t |-> NoTask, kind |-> "none", out |-> "none",
         script |-> <<Timeout, Timeout, Timeout>>, sent |-> 0, attempts |-> 0,
         only5xx |-> FALSE, from |-> "none", obj |-> 0, error |-> "none",
         op |-> "none", retry |-> 0, total |-> 0, cid |-> 0, known |-> FALSE,
         method |-> "none", replies |-> <<>>,
         offer |-> [m |-> <<>>, c |-> <<>>]]

IdleTask == [pc |-> "idle", op |-> "none", force |-> FALSE, safe |-> FALSE,
             prev_state |-> FALSE, retry |-> 0, total_retry |-> 0,
             sent |-> 0, attempts |-> 0, only5xx |-> TRUE,
             script |-> <<Timeout, Timeout, Timeout>>, from |-> "none",
             err |-> "none"]

\* IntercomVoip._change_status (without register=True)
Log(l, s) == IF Len(l) < 3 THEN Append(l, s) ELSE Append(Tail(l), s)

\* the loop is between two task steps and no cancelled task is waiting for
\* its CancelledError (that one is resumed first)
Quiet == running = NoTask /\ \A k \in LoopIds : recv_tasks[k] # "cancelling"

\* a task may take a step when no other task is inside an uninterruptible stretch
Runnable(t) == Quiet \/ running = t

FreeLoop(ts) == {k \in LoopIds : ts[k] = "none"}


\* ------------------------------------------------------------------ calls
CallIds == 1..MaxCallIds
Objs == 1..MaxObjs
Ports == 1..MaxPorts
NoCall == 0

\* SDP offers: the m lines (type, port count) and the address count of each
\* c line
Audio(n) == [type |-> "audio", port_count |-> n]
Video(n) == [type |-> "video", port_count |-> n]
Offers ==
    {[m |-> ms, c |-> cs] :
        ms \in {<<Audio(0)>>, <<Audio(1)>>, <<Audio(2)>>,
                <<Audio(1), Video(1)>>},
        cs \in {<<1>>, <<1, 1>>}}

RECURSIVE SumSeq(_)
SumSeq(s) == IF s = <<>> THEN 0 ELSE Head(s) + SumSeq(Tail(s))

Connections(o) == SumSeq(o.c)

MediaLines(o, type) == SelectSeq(o.m, LAMBDA x : x.type = type)

PortCount(o, type) ==
    SumSeq([i \in 1..Len(MediaLines(o, type)) |->
               MediaLines(o, type)[i].port_count])

\* _fill with its test replaced by true: every offer is plumbed
PortsFitAlways(o) == TRUE

\* Call._fill's test: ports per line of a type equal the connections, or
\* there are no ports of that type
PortsFit(o) ==
    \A type \in {"audio", "video"} :
        \/ /\ MediaLines(o, type) # <<>>
           /\ PortCount(o, type) = Len(MediaLines(o, type)) * Connections(o)
        \/ PortCount(o, type) = 0

\* the ports _fill draws for the m lines: one per line, none assigned yet,
\* each appended to assigned_ports before the next is drawn. random.randint
\* may give any free port of the pool; the ports are interchangeable, and
\* the draws followed are those that take the lowest free port each time
PortDraws(assigned, n) ==
    {ps \in [1..n -> Ports \ assigned] :
        /\ \A i, j \in 1..n : i # j => ps[i] # ps[j]
        /\ \A i \in 1..n : \A p \in Ports \ assigned :
              p < ps[i] => \E j \in 1..(i - 1) : ps[j] = p}

\* Call._fill: for every m line, one RtpClient per c line, all on the port
\* drawn for that m line
FillClients(o, ps) ==
    [n \in 1..(Len(o.m) * Len(o.c)) |->
        LET i == ((n - 1) \div Len(o.c)) + 1 IN
        [port |-> ps[i], audio |-> o.m[i].type = "audio",
         started |-> FALSE, bound |-> FALSE]]

NoObject == [state |-> "none", call_id |-> NoCall, clients |-> <<>>]

\* ClientStopEnd that leaves the socket open
ClientStopEndLeavesOpen(cl, o, i) == cl

\* RtpClient.stop before its one-second sleep, and after it
ClientStopBegin(cl, o, i) == [cl EXCEPT ![o].clients[i].started = FALSE]
ClientStopEnd(cl, o, i) == [cl EXCEPT ![o].clients[i].bound = FALSE]

\* some client's socket is bound to the port
PortBound(cl, p) ==
    \E o \in Objs : \E i \in 1..Len(cl[o].clients) :
        cl[o].clients[i].bound /\ cl[o].clients[i].port = p

\* RtpClient.start: _started is set before bind, and bind fails (OSError)
\* when another socket holds the port
StartRaises(cl, o, i) ==
    ~cl[o].clients[i].started /\ PortBound(cl, cl[o].clients[i].port)

ClientStart(cl, o, i) ==
    IF cl[o].clients[i].started THEN cl
    ELSE [cl EXCEPT ![o].clients[i].started = TRUE,
                    ![o].clients[i].bound = ~PortBound(cl, cl[o].clients[i].port)]

\* the first audio client at or after position i, 0 when there is none
NextAudio(cl, o, i) ==
    LET s == {j \in i..Len(cl[o].clients) : cl[o].clients[j].audio} IN
    IF s = {} THEN 0 ELSE CHOOSE j \in s : \A x \in s : j <= x

\* _callback_ack without its `if call.state == CallState.RINGING` guard
AckStateUnguarded(s) == "answered"

\* _callback_ack that never answers
AckStateKept(s) == s

\* IntercomVoip._callback_ack's state change
AckState(s) == IF s = "ringing" THEN "answered" ELSE s

NoFrame == [pc |-> "idle", op |-> "none", obj |-> NoCall, cur |-> NoCall,
            cid |-> NoCall, i |-> 0, rest |-> <<>>, ids |-> <<>>,
            size |-> 0]

\* the Call-IDs of self.calls in iteration order
Present == SelectSeq([c \in CallIds |-> c], LAMBDA c : calls[c] # NoCall)

\* where one of IntercomVoip.stop's loops suspends next, or that both are over
EndPoint(cs, cl, pc, cid, rest) ==
    [calls |-> cs, call |-> cl, pc |-> pc, cid |-> cid,
     cur |-> IF cid = NoCall THEN NoCall ELSE cs[cid], rest |-> rest]

\* IntercomVoip.stop's second loop over the collected ids: clean_call each,
\* up to the first client stop that suspends
RECURSIVE CleanCalls(_, _, _)
CleanCalls(cs, cl, ids) ==
    IF ids = <<>> THEN EndPoint(cs, cl, "done", NoCall, <<>>)
    ELSE LET c == Head(ids) IN
         IF cs[c] = NoCall THEN CleanCalls(cs, cl, Tail(ids))
         ELSE IF cl[cs[c]].clients = <<>>
         THEN CleanCalls([cs EXCEPT ![c] = NoCall], cl, Tail(ids))
         ELSE EndPoint(cs, ClientStopBegin(cl, cs[c], 1), "end_clean", c,
                       Tail(ids))

\* IntercomVoip.stop's first loop from the iterator's position: every call
\* is ended and its clients stopped, up to the first stop that suspends;
\* after the last call the second loop begins
RECURSIVE EndCalls(_, _, _, _)
EndCalls(cs, cl, rest, ids) ==
    IF rest = <<>> THEN CleanCalls(cs, cl, ids)
    ELSE LET c == Head(rest) IN
         IF cs[c] = NoCall THEN EndCalls(cs, cl, Tail(rest), ids)
         ELSE LET e == [cl EXCEPT ![cs[c]].state = "ended"] IN
              IF cl[cs[c]].clients = <<>>
              THEN EndCalls(cs, e, Tail(rest), ids)
              ELSE EndPoint(cs, ClientStopBegin(e, cs[c], 1), "end_stop", c,
                            Tail(rest))

\* IntercomSip._send on the signalling socket: sendto on a closed socket
\* raises OSError, which _send turns into _internet_connect = False and
\* status failed. What the first send after a failure sets going is followed
\* for the keepalive, in PingStep
SendStatus == IF sock = "closed" THEN "failed" ELSE status
SendLog == IF sock = "closed" THEN Log(status_log, "failed") ELSE status_log
SendInternet == IF sock = "closed" THEN FALSE ELSE internet

\* Task.cancel() on a recv task: a task suspended inside `async with` keeps
\* its place until the CancelledError unwinds it; one waiting for the lock
\* or not yet run simply ends
CancelRecv(ts, k) ==
    IF k = NoTask THEN ts
    ELSE [ts EXCEPT ![k] = IF @ \in {"locked", "handling", "cancelling"}
                           THEN "cancelling" ELSE "none"]

CancelRecvLock(l, ts, k) ==
    IF k # NoTask /\ ts[k] = "waiting" THEN LockCancelWaiter(l, k) ELSE l

CancelPing(ts, k) == IF k = NoTask THEN ts ELSE [ts EXCEPT ![k] = "none"]

\* the exception that leaves sip.start for what ended _register: a
\* TimeoutError becomes IntercomSipTimeoutError, any IntercomError becomes a
\* new IntercomError(str(_err)); the already-started error is raised as it is
StartError(err) ==
    CASE err = "timeout" -> "IntercomSipTimeoutError"
      [] err = "already" -> "IntercomSipAlreadyStartedError"
      [] err = "none"    -> "none"
      [] OTHER           -> "IntercomError"

\* the event a finished operation leaves behind
Done(t, kind, out) ==
    [NoEv EXCEPT !.t = t, !.kind = kind, !.out = out,
                 !.script = task[t].script, !.sent = task[t].sent,
                 !.attempts = task[t].attempts, !.only5xx = task[t].only5xx,
                 !.from = task[t].from, !.op = task[t].op,
                 !.retry = task[t].retry, !.total = task[t].total_retry,
                 !.error = IF kind = "start_failed" THEN StartError(out)
                           ELSE "none"]

\* ------------------------------------------------------ coordinator's API
\* IntercomVoip.start, up to its call of sip.start, as one of at most n
\* operations
ApiStartWithin(n) ==
    /\ Runnable(ApiT) /\ task[ApiT].pc = "idle" /\ ops < n
    /\ task' = [task EXCEPT ![ApiT] =
                  [IdleTask EXCEPT !.pc = "sip_start", !.op = "start",
                                   !.from = status]]
    /\ status' = "registering"
    /\ status_log' = Log(status_log, "registering")
    /\ running' = ApiT /\ ops' = ops + 1 /\ ev' = NoEv
    /\ UNCHANGED <<sip_started, recv_lock, sock, internet, register_loop,
                   orphans, recv_tasks, recv_loop, ping_tasks, ping_loop, fires, server, sleepers, callVars>>
    /\ UNCHANGED <<mediaVars, updater>>

ApiStart == ApiStartWithin(MaxOps)

\* IntercomVoip.stop, up to its call of sip.stop(), as one of at most n
\* operations
ApiStopWithin(n) ==
    /\ Runnable(ApiT) /\ task[ApiT].pc = "idle" /\ ops < n
    /\ task' = [task EXCEPT ![ApiT] =
                  [IdleTask EXCEPT !.pc = "sip_stop", !.op = "stop",
                                   !.from = status]]
    /\ status' = "deregistering"
    /\ status_log' = Log(status_log, "deregistering")
    /\ running' = ApiT /\ ops' = ops + 1 /\ ev' = NoEv
    /\ UNCHANGED <<sip_started, recv_lock, sock, internet, register_loop,
                   orphans, recv_tasks, recv_loop, ping_tasks, ping_loop, fires, server, sleepers, callVars>>
    /\ UNCHANGED <<mediaVars, updater>>

ApiStop == ApiStopWithin(MaxOps)

\* IntercomVoip.safe_start(total_retry), up to its call of sip.stop(True)
ApiSafeStart ==
    /\ Runnable(ApiT) /\ task[ApiT].pc = "idle" /\ ops < MaxOps
    /\ \E n \in {0, MaxRetry} :
         task' = [task EXCEPT ![ApiT] =
                    [IdleTask EXCEPT !.pc = "sip_stop", !.op = "safe_start",
                                     !.force = TRUE, !.retry = 1,
                                     !.total_retry = n, !.from = status]]
    /\ running' = ApiT /\ ops' = ops + 1 /\ ev' = NoEv
    /\ UNCHANGED <<status, status_log, sip_started, recv_lock, sock, internet,
                   register_loop, orphans, recv_tasks, recv_loop, ping_tasks,
                   ping_loop, fires, server, sleepers, callVars>>
    /\ UNCHANGED <<mediaVars, updater>>

\* the re-register timer expires: IntercomSip._safe_register starts, up to
\* its call of stop(True, True)
TimerFire ==
    /\ Runnable(TimerT) /\ task[TimerT].pc = "idle" /\ fires < MaxFires
    /\ \/ /\ register_loop.st = "armed"
          /\ register_loop' = [register_loop EXCEPT !.st = "fired"]
          /\ UNCHANGED orphans
       \/ /\ orphans > 0
          /\ orphans' = orphans - 1
          /\ UNCHANGED register_loop
    /\ task' = [task EXCEPT ![TimerT] =
                  [IdleTask EXCEPT !.pc = "sip_stop", !.op = "safe_register",
                                   !.force = TRUE, !.safe = TRUE,
                                   !.from = status]]
    /\ status' = "deregistering"
    /\ status_log' = Log(status_log, "deregistering")
    /\ running' = TimerT /\ fires' = fires + 1 /\ ev' = NoEv
    /\ UNCHANGED <<sip_started, recv_lock, sock, internet, recv_tasks,
                   recv_loop, ping_tasks, ping_loop, ops, server, sleepers, callVars>>
    /\ UNCHANGED <<mediaVars, updater>>

\* --------------------------------------------------------- IntercomSip.stop
\* cancel the timer unless safe, clear _started, sleep one second
SipStopBegin(t) ==
    /\ Runnable(t) /\ task[t].pc = "sip_stop"
    /\ register_loop' =
         IF register_loop.st = "armed" /\ ~task[t].safe
         THEN [register_loop EXCEPT !.st = "cancelled"] ELSE register_loop
    /\ task' = [task EXCEPT ![t].pc = "stop_sleep",
                            ![t].prev_state = sip_started]
    /\ sip_started' = FALSE
    /\ sleepers' = Append(sleepers, t)
    /\ running' = NoTask /\ ev' = NoEv
    /\ UNCHANGED <<status, status_log, recv_lock, sock, internet, orphans,
                   recv_tasks, recv_loop, ping_tasks, ping_loop, ops, fires,
                   server, callVars>>
    /\ UNCHANGED <<mediaVars, updater>>

\* after the sleep: cancel the loops, restore _started, then either close
\* the sockets and return or go on to deregister
SipStopWake(t) ==
    /\ Quiet /\ task[t].pc = "stop_sleep"
    /\ sleepers # <<>> /\ Head(sleepers) = t
    /\ sleepers' = RemoveWaiter(Tail(sleepers), recv_loop)
    /\ recv_tasks' = CancelRecv(recv_tasks, recv_loop)
    /\ ping_tasks' = CancelPing(ping_tasks, ping_loop)
    /\ sip_started' = task[t].prev_state
    /\ IF ~task[t].prev_state /\ ~task[t].force
       THEN /\ sock' = IF sock = "open" THEN "closed" ELSE sock
            /\ recv_lock' = CancelRecvLock(recv_lock, recv_tasks, recv_loop)
            /\ task' = [task EXCEPT ![t].pc = "stop_ret", ![t].err = "none"]
       ELSE /\ sock' = IF task[t].force /\ sock = "none" THEN "open" ELSE sock
            /\ recv_lock' =
                 SafeRelease(CancelRecvLock(recv_lock, recv_tasks, recv_loop))
            /\ task' = [task EXCEPT ![t].pc = "dereg_enter",
                                    ![t].attempts = 0]
    /\ running' = t /\ ev' = NoEv
    /\ UNCHANGED <<status, status_log, internet, register_loop, orphans,
                   recv_loop, ping_loop, ops, fires, server, callVars>>
    /\ UNCHANGED <<mediaVars, updater>>

\* IntercomSip._deregister: _safe_release, then `async with self._recv_lock`
DeregEnter(t) ==
    /\ Runnable(t) /\ task[t].pc = "dereg_enter"
    /\ LET l == SafeRelease(recv_lock) IN
       IF CanAcquire(l)
       THEN /\ recv_lock' = LockAcquire(l)
            /\ task' = [task EXCEPT ![t].pc = "in_deregister",
                                    ![t].attempts = @ + 1]
            /\ running' = t
       ELSE /\ recv_lock' = LockEnqueue(l, t)
            /\ task' = [task EXCEPT ![t].pc = "dereg_wait"]
            /\ running' = NoTask
    /\ ev' = NoEv
    /\ UNCHANGED <<status, status_log, sip_started, sock, internet,
                   register_loop, orphans, recv_tasks, recv_loop, ping_tasks,
                   ping_loop, ops, fires, server, sleepers, callVars>>
    /\ UNCHANGED <<mediaVars, updater>>

\* the lock is handed to the waiting _deregister
DeregResume(t) ==
    /\ Quiet /\ task[t].pc = "dereg_wait"
    /\ recv_lock.woken /\ Head(recv_lock.waiters) = t
    /\ recv_lock' = LockResume(recv_lock)
    /\ task' = [task EXCEPT ![t].pc = "in_deregister", ![t].attempts = @ + 1]
    /\ running' = t /\ ev' = NoEv
    /\ UNCHANGED <<status, status_log, sip_started, sock, internet,
                   register_loop, orphans, recv_tasks, recv_loop, ping_tasks,
                   ping_loop, ops, fires, server, sleepers, callVars>>
    /\ UNCHANGED <<mediaVars, updater>>

\* the send/select/recv sequence of _deregister and what stop() makes of it.
\* On a closed socket sendto fails (_send reports failed) and select raises
\* ValueError, which nothing catches.
DeregFinish(t) ==
    /\ running = t /\ task[t].pc = "in_deregister"
    /\ recv_lock' = LockExit(recv_lock)
    /\ IF sock # "open"
       THEN /\ internet' = FALSE
            /\ status' = "failed"
            /\ status_log' = Log(status_log, "failed")
            /\ task' = [task EXCEPT ![t] = IdleTask]
            /\ ev' = Done(t, "raised", "valueerror")
            /\ running' = NoTask
            /\ UNCHANGED <<sip_started, sock>>
       ELSE \E s \in Served(DeregisterScripts) :
            LET r == DeregisterOutcome(s) IN
            /\ UNCHANGED <<internet, status, status_log>>
            /\ ev' = NoEv
            /\ CASE r.out = "retry" ->
                      /\ task[t].attempts < AttemptCap
                      /\ task' = [task EXCEPT ![t].pc = "dereg_sleep"]
                      /\ running' = NoTask
                      /\ UNCHANGED <<sip_started, sock>>
                 [] r.out = "ok" ->
                      /\ sip_started' = FALSE
                      /\ sock' = IF ~task[t].force THEN "closed" ELSE sock
                      /\ task' = [task EXCEPT ![t].pc = "stop_ret",
                                              ![t].err = "none"]
                      /\ running' = t
                 [] OTHER ->
                      /\ task' = [task EXCEPT ![t].pc = "stop_ret",
                                              ![t].err = r.out]
                      /\ running' = t
                      /\ UNCHANGED <<sip_started, sock>>
    /\ UNCHANGED <<register_loop, orphans, recv_tasks, recv_loop, ping_tasks,
                   ping_loop, ops, fires, server, sleepers, callVars>>
    /\ UNCHANGED <<mediaVars, updater>>

\* the SIP_RETRY_SLEEP pause of _deregister is over: recurse
DeregRetry(t) ==
    /\ Quiet /\ task[t].pc = "dereg_sleep"
    /\ IF task[t].attempts >= RecursionLimit
       THEN \* RecursionError: no caller catches it
            /\ task' = [task EXCEPT ![t] = IdleTask]
            /\ ev' = Done(t, "raised", "recursion")
            /\ running' = NoTask
       ELSE /\ task' = [task EXCEPT ![t].pc = "dereg_enter"]
            /\ ev' = NoEv
            /\ running' = t
    /\ UNCHANGED <<status, status_log, sip_started, recv_lock, sock, internet,
                   register_loop, orphans, recv_tasks, recv_loop, ping_tasks,
                   ping_loop, ops, fires, server, sleepers, callVars>>
    /\ UNCHANGED <<mediaVars, updater>>


\* IntercomSip._safe_register's except clause: _safe_release, status failed,
\* a new timer after SIP_RETRY_SLEEP
SafeRegisterFail(t) ==
    /\ recv_lock' = SafeRelease(recv_lock)
    /\ status' = "failed"
    /\ status_log' = Log(status_log, "failed")
    /\ register_loop' = Armed(SIP_RETRY_SLEEP)
    /\ orphans' = IF register_loop.st = "armed" THEN orphans + 1 ELSE orphans
    /\ task' = [task EXCEPT ![t] = IdleTask]
    /\ ev' = Done(t, "reregister_failed", task[t].err)
    /\ running' = NoTask

\* IntercomVoip.stop is at point r of its loops over the calls: suspended
\* in a client's stop, or returning
EndCallsApply(t, r, ids, size, sl) ==
    /\ calls' = r.calls
    /\ call' = r.call
    /\ IF r.pc = "done"
       THEN /\ frame' = [frame EXCEPT ![t] = NoFrame]
            /\ task' = [task EXCEPT ![t] = IdleTask]
            /\ sleepers' = sl
            /\ ev' = Done(t, "stop_done", task[t].err)
       ELSE /\ frame' = [frame EXCEPT ![t] =
                           [pc |-> r.pc, op |-> "stop", obj |-> r.cur,
                            cur |-> r.cur, cid |-> r.cid, i |-> 1,
                            rest |-> r.rest, ids |-> ids, size |-> size]]
            /\ task' = [task EXCEPT ![t].pc = "end_calls"]
            /\ sleepers' = Append(sl, t)
            /\ ev' = NoEv
    /\ running' = NoTask

\* sip.stop has returned or raised: what its caller does next
StopReturn(t) ==
    /\ running = t /\ task[t].pc = "stop_ret"
    /\ CASE task[t].op = "stop" ->
              \* IntercomVoip.stop: status inactive, then the calls are ended
              /\ status' = "inactive"
              /\ status_log' = Log(status_log, "inactive")
              /\ EndCallsApply(t, EndCalls(calls, call, Present, Present),
                               Present, Len(Present), sleepers)
              /\ UNCHANGED <<recv_lock, register_loop, orphans,
                             assigned_ports, re_answer, call_ops,
                             reapers>>
         [] task[t].op = "safe_start" /\ task[t].err = "none" ->
              \* IntercomVoip.safe_start goes on to self.start()
              /\ status' = "registering"
              /\ status_log' = Log(status_log, "registering")
              /\ task' = [task EXCEPT ![t].pc = "sip_start"]
              /\ ev' = NoEv
              /\ running' = t
              /\ UNCHANGED <<recv_lock, register_loop, orphans, sleepers,
                             callVars>>
         [] task[t].op = "safe_start" /\ task[t].err # "none" ->
              \* except IntercomError: sleep and try again, or give up
              /\ IF task[t].retry <= task[t].total_retry
                 THEN /\ task' = [task EXCEPT ![t].pc = "retry_sleep"]
                      /\ ev' = NoEv
                 ELSE /\ task' = [task EXCEPT ![t] = IdleTask]
                      /\ ev' = Done(t, "safe_start_false", task[t].err)
              /\ running' = NoTask
              /\ UNCHANGED <<status, status_log, recv_lock, register_loop,
                             orphans, sleepers, callVars>>
         [] task[t].op = "safe_register" /\ task[t].err = "none" ->
              /\ status' = "registering"
              /\ status_log' = Log(status_log, "registering")
              /\ task' = [task EXCEPT ![t].pc = "sip_start"]
              /\ ev' = NoEv
              /\ running' = t
              /\ UNCHANGED <<recv_lock, register_loop, orphans, sleepers,
                             callVars>>
         [] OTHER -> SafeRegisterFail(t) /\ UNCHANGED <<sleepers, callVars>>
    /\ UNCHANGED <<sip_started, sock, internet, recv_tasks, recv_loop,
                   ping_tasks, ping_loop, ops, fires, server>>
    /\ UNCHANGED <<mediaVars, updater>>

\* IntercomVoip.stop resumes after a client's one-second sleep
EndCallsWake(t) ==
    /\ Quiet /\ task[t].pc = "end_calls"
    /\ sleepers # <<>> /\ Head(sleepers) = t
    /\ LET f == frame[t]
           closed == ClientStopEnd(call, f.cur, f.i)
           raised(what) ==
               /\ call' = closed
               /\ frame' = [frame EXCEPT ![t] = NoFrame]
               /\ task' = [task EXCEPT ![t] = IdleTask]
               /\ sleepers' = Tail(sleepers)
               /\ ev' = Done(t, "raised", what)
               /\ running' = NoTask
               /\ UNCHANGED calls IN
       IF f.i < Len(call[f.cur].clients)
       THEN /\ call' = ClientStopBegin(closed, f.cur, f.i + 1)
            /\ frame' = [frame EXCEPT ![t].i = f.i + 1]
            /\ sleepers' = Append(Tail(sleepers), t)
            /\ ev' = NoEv /\ running' = NoTask
            /\ UNCHANGED <<calls, task>>
       ELSE IF f.pc = "end_stop"
       THEN \* the dict iterator's next(): a changed size raises RuntimeError
            IF Len(Present) # f.size
            THEN raised("runtimeerror")
            ELSE EndCallsApply(t, EndCalls(calls, closed, f.rest, f.ids),
                               f.ids, f.size, Tail(sleepers))
       ELSE \* clean_call's del self.calls[call_id]
            IF calls[f.cid] = NoCall
            THEN raised("keyerror")
            ELSE EndCallsApply(t, CleanCalls([calls EXCEPT ![f.cid] = NoCall],
                                             closed, f.rest),
                               f.ids, f.size, Tail(sleepers))
    /\ UNCHANGED <<status, status_log, sip_started, recv_lock, sock, internet,
                   register_loop, orphans, recv_tasks, recv_loop, ping_tasks,
                   ping_loop, ops, fires, server, assigned_ports, re_answer,
                   call_ops, reapers>>
    /\ UNCHANGED <<mediaVars, updater>>

\* safe_start's pause is over: safe_start(total_retry, sleep, retry + 1)
SafeStartRetry(t) ==
    /\ Quiet /\ task[t].pc = "retry_sleep"
    /\ task' = [task EXCEPT ![t].pc = "sip_stop", ![t].retry = @ + 1]
    /\ running' = t /\ ev' = NoEv
    /\ UNCHANGED <<status, status_log, sip_started, recv_lock, sock, internet,
                   register_loop, orphans, recv_tasks, recv_loop, ping_tasks,
                   ping_loop, ops, fires, server, sleepers, callVars>>
    /\ UNCHANGED <<mediaVars, updater>>

\* -------------------------------------------------------- IntercomSip.start
\* sip.start without its `if self._started` check
AlreadyStartedUnchecked(started) == FALSE

\* sip.start's check: a started endpoint is not started again
AlreadyStarted(started) == started

\* the already-started check, _started = True, open_sockets
SipStart(t) ==
    /\ running = t /\ task[t].pc = "sip_start"
    /\ IF AlreadyStarted(sip_started)
       THEN /\ task' = [task EXCEPT ![t].pc = "start_ret",
                                    ![t].err = "already"]
            /\ UNCHANGED <<sip_started, sock>>
       ELSE /\ sip_started' = TRUE
            /\ sock' = IF sock = "none" THEN "open" ELSE sock
            /\ task' = [task EXCEPT ![t].pc = "reg_enter", ![t].sent = 0,
                                    ![t].attempts = 0, ![t].only5xx = TRUE]
    /\ running' = t /\ ev' = NoEv
    /\ UNCHANGED <<status, status_log, recv_lock, internet, register_loop,
                   orphans, recv_tasks, recv_loop, ping_tasks, ping_loop,
                   ops, fires, server, sleepers, callVars>>
    /\ UNCHANGED <<mediaVars, updater>>

\* IntercomSip._register: _safe_release, then `async with self._recv_lock`
RegEnter(t) ==
    /\ Runnable(t) /\ task[t].pc = "reg_enter"
    /\ LET l == SafeRelease(recv_lock) IN
       IF CanAcquire(l)
       THEN /\ recv_lock' = LockAcquire(l)
            /\ task' = [task EXCEPT ![t].pc = "in_register",
                                    ![t].attempts = @ + 1]
            /\ running' = t
       ELSE /\ recv_lock' = LockEnqueue(l, t)
            /\ task' = [task EXCEPT ![t].pc = "reg_wait"]
            /\ running' = NoTask
    /\ ev' = NoEv
    /\ UNCHANGED <<status, status_log, sip_started, sock, internet,
                   register_loop, orphans, recv_tasks, recv_loop, ping_tasks,
                   ping_loop, ops, fires, server, sleepers, callVars>>
    /\ UNCHANGED <<mediaVars, updater>>

RegResume(t) ==
    /\ Quiet /\ task[t].pc = "reg_wait"
    /\ recv_lock.woken /\ Head(recv_lock.waiters) = t
    /\ recv_lock' = LockResume(recv_lock)
    /\ task' = [task EXCEPT ![t].pc = "in_register", ![t].attempts = @ + 1]
    /\ running' = t /\ ev' = NoEv
    /\ UNCHANGED <<status, status_log, sip_started, sock, internet,
                   register_loop, orphans, recv_tasks, recv_loop, ping_tasks,
                   ping_loop, ops, fires, server, sleepers, callVars>>
    /\ UNCHANGED <<mediaVars, updater>>

ReRegisterDelayNoMargin == SIP_EXPIRES

\* the delay of the timer _register arms after 200 OK
ReRegisterDelay == SIP_EXPIRES - 10

\* the lowest free task slot
NewLoop(ts) == CHOOSE k \in FreeLoop(ts) : \A j \in FreeLoop(ts) : k <= j

\* the send/select/recv sequence of _register and what sip.start makes of it
RegFinish(t) ==
    /\ running = t /\ task[t].pc = "in_register"
    /\ recv_lock' = LockExit(recv_lock)
    /\ IF sock # "open"
       THEN \* sendto fails, select raises ValueError: nobody catches it
            /\ internet' = FALSE
            /\ status' = "failed"
            /\ status_log' = Log(status_log, "failed")
            /\ task' = [task EXCEPT ![t] = IdleTask]
            /\ ev' = Done(t, "raised", "valueerror")
            /\ running' = NoTask
            /\ UNCHANGED <<sip_started, register_loop, orphans, recv_tasks,
                           recv_loop, ping_tasks, ping_loop>>
       ELSE \E s \in Served(RegisterScripts) :
            LET r == RegisterOutcome(s)
                me == [task[t] EXCEPT
                         !.script = IF r.out = "retry" THEN @ ELSE s,
                         !.sent = @ + r.sent,
                         !.only5xx = @ /\ Retryable(s[1])] IN
            /\ UNCHANGED <<internet, status, status_log>>
            /\ CASE r.out = "retry" ->
                      \* sleep SIP_RETRY_SLEEP, then `return await
                      \* self._register()`: one more frame on the task's stack
                      /\ task[t].attempts < AttemptCap
                      /\ task' = [task EXCEPT ![t] = [me EXCEPT !.pc = "reg_sleep"]]
                      /\ ev' = [Done(t, "reg_retry", "retry") EXCEPT
                                  !.sent = me.sent, !.only5xx = me.only5xx]
                      /\ running' = NoTask
                      /\ UNCHANGED <<sip_started, register_loop, orphans,
                                     recv_tasks, recv_loop, ping_tasks, ping_loop>>
                 [] r.out = "ok" ->
                      /\ FreeLoop(recv_tasks) # {} /\ FreeLoop(ping_tasks) # {}
                      /\ register_loop' = IF sip_started
                                          THEN Armed(ReRegisterDelay)
                                          ELSE register_loop
                      /\ orphans' = IF sip_started /\ register_loop.st = "armed"
                                    THEN orphans + 1 ELSE orphans
                      /\ recv_loop' = NewLoop(recv_tasks)
                      /\ recv_tasks' = [recv_tasks EXCEPT
                                          ![NewLoop(recv_tasks)] = "ready"]
                      /\ ping_loop' = NewLoop(ping_tasks)
                      /\ ping_tasks' = [ping_tasks EXCEPT
                                          ![NewLoop(ping_tasks)] = "alive"]
                      /\ task' = [task EXCEPT ![t] =
                                    [me EXCEPT !.pc = "start_ret", !.err = "none"]]
                      /\ ev' = NoEv
                      /\ running' = t
                      /\ UNCHANGED sip_started
                 [] r.out = "oserror" ->
                      \* BlockingIOError: neither sip.start nor its callers catch it
                      /\ task' = [task EXCEPT ![t] = IdleTask]
                      /\ ev' = [Done(t, "raised", "oserror") EXCEPT
                                  !.sent = me.sent, !.only5xx = me.only5xx,
                                  !.script = s]
                      /\ running' = NoTask
                      /\ UNCHANGED <<sip_started, register_loop, orphans,
                                     recv_tasks, recv_loop, ping_tasks, ping_loop>>
                 [] OTHER ->
                      \* TimeoutError or IntercomError: _started = False,
                      \* _safe_release, re-raise
                      /\ sip_started' = FALSE
                      /\ task' = [task EXCEPT ![t] =
                                    [me EXCEPT !.pc = "start_ret", !.err = r.out]]
                      /\ ev' = NoEv
                      /\ running' = t
                      /\ UNCHANGED <<register_loop, orphans, recv_tasks,
                                     recv_loop, ping_tasks, ping_loop>>
    /\ UNCHANGED <<sock, ops, fires, server, sleepers, callVars>>
    /\ UNCHANGED <<mediaVars, updater>>

\* the SIP_RETRY_SLEEP pause of _register is over: `return await
\* self._register()` nests one more coroutine frame
RegRetry(t) ==
    /\ Quiet /\ task[t].pc = "reg_sleep"
    /\ IF task[t].attempts >= RecursionLimit
       THEN \* RecursionError: no caller catches it
            /\ task' = [task EXCEPT ![t] = IdleTask]
            /\ ev' = Done(t, "raised", "recursion")
            /\ running' = NoTask
       ELSE /\ task' = [task EXCEPT ![t].pc = "reg_enter"]
            /\ ev' = NoEv
            /\ running' = t
    /\ UNCHANGED <<status, status_log, sip_started, recv_lock, sock, internet,
                   register_loop, orphans, recv_tasks, recv_loop, ping_tasks,
                   ping_loop, ops, fires, server, sleepers, callVars>>
    /\ UNCHANGED <<mediaVars, updater>>

\* sip.start has returned or raised: IntercomVoip.start sets registered or
\* failed and returns; _safe_register sets registered or runs its except clause
StartReturn(t) ==
    /\ running = t /\ task[t].pc = "start_ret"
    /\ IF task[t].op = "safe_register" /\ task[t].err # "none"
       THEN SafeRegisterFail(t)
       ELSE /\ status' = IF task[t].err = "none" THEN "registered" ELSE "failed"
            /\ status_log' = Log(status_log, status')
            /\ task' = [task EXCEPT ![t] = IdleTask]
            /\ ev' = Done(t, IF task[t].op = "safe_register"
                             THEN "reregister_ok"
                             ELSE IF task[t].err = "none" THEN "start_ok"
                             ELSE "start_failed", task[t].err)
            /\ running' = NoTask
            /\ UNCHANGED <<recv_lock, register_loop, orphans>>
    /\ UNCHANGED <<sip_started, sock, internet, recv_tasks, recv_loop,
                   ping_tasks, ping_loop, ops, fires, server, sleepers, callVars>>
    /\ UNCHANGED <<mediaVars, updater>>


\* ------------------------------------------------- IntercomSip._recv, _ping
\* A recv task is
\*   "ready"      created, not yet run
\*   "top"        at the top of its loop, running
\*   "reading"    holding the lock, about to read the socket, running
\*   "locked"     nothing to read (BlockingIOError): sleeps inside the lock
\*   "handling"   suspended inside the lock in the handling of a datagram
\*   "waiting"    queued for the lock
\*   "cancelling" cancelled while suspended inside the lock, not yet unwound
\*   "none"       finished or never created
\* the top of the loop: leave when the endpoint is not started, else take
\* the lock or queue for it
RecvLoopTop(k) ==
    /\ \/ Quiet /\ recv_tasks[k] = "ready"
       \/ running = k /\ recv_tasks[k] = "top"
    /\ IF ~sip_started \/ sock = "none"
       THEN /\ recv_tasks' = [recv_tasks EXCEPT ![k] = "none"]
            /\ running' = NoTask
            /\ UNCHANGED recv_lock
       ELSE IF CanAcquire(recv_lock)
       THEN /\ recv_tasks' = [recv_tasks EXCEPT ![k] = "reading"]
            /\ recv_lock' = LockAcquire(recv_lock)
            /\ running' = k
       ELSE /\ recv_tasks' = [recv_tasks EXCEPT ![k] = "waiting"]
            /\ recv_lock' = LockEnqueue(recv_lock, k)
            /\ running' = NoTask
    /\ ev' = NoEv
    /\ UNCHANGED <<status, status_log, sip_started, sock, internet,
                   register_loop, orphans, recv_loop, ping_tasks, ping_loop,
                   task, ops, fires, server, sleepers, callVars>>
    /\ UNCHANGED <<mediaVars, updater>>

\* the lock is handed to a waiting recv task
RecvResume(k) ==
    /\ Quiet /\ recv_tasks[k] = "waiting"
    /\ recv_lock.woken /\ Head(recv_lock.waiters) = k
    /\ recv_tasks' = [recv_tasks EXCEPT ![k] = "reading"]
    /\ recv_lock' = LockResume(recv_lock)
    /\ running' = k /\ ev' = NoEv
    /\ UNCHANGED <<status, status_log, sip_started, sock, internet,
                   register_loop, orphans, recv_loop, ping_tasks, ping_loop,
                   task, ops, fires, server, sleepers, callVars>>
    /\ UNCHANGED <<mediaVars, updater>>

\* self._in.recv finds nothing (BlockingIOError: sleep 0.01 s inside the
\* lock); on a closed socket it raises OSError, which ends the task
RecvNothing(k) ==
    /\ running = k /\ recv_tasks[k] = "reading"
    /\ IF sock = "closed"
       THEN /\ recv_tasks' = [recv_tasks EXCEPT ![k] = "none"]
            /\ recv_lock' = LockExit(recv_lock)
            /\ ev' = [NoEv EXCEPT !.t = k, !.kind = "recv_died",
                                  !.out = "oserror"]
       ELSE /\ recv_tasks' = [recv_tasks EXCEPT ![k] = "locked"]
            /\ ev' = NoEv
            /\ UNCHANGED recv_lock
    /\ running' = NoTask
    /\ UNCHANGED <<status, status_log, sip_started, sock, internet,
                   register_loop, orphans, recv_loop, ping_tasks, ping_loop,
                   task, ops, fires, server, sleepers, callVars>>
    /\ UNCHANGED <<mediaVars, updater>>

\* what MessageParser.parse and Message.type raise for a datagram that does
\* not parse: IntercomSipParseError for empty or encoded content and for a
\* request line that is not SIP, IndexError for a header line without ": "
\* (chunk[1]) or a body line without "="
ParseFailures == {"IntercomSipParseError", "IndexError"}

\* a datagram that does not parse. _recv catches BlockingIOError and
\* IntercomError: an IntercomSipParseError is logged and followed by a sleep
\* of 0.01 s inside the lock; any other exception leaves `async with` and
\* ends the task
RecvGarbled(k, error) ==
    /\ running = k /\ recv_tasks[k] = "reading" /\ sock = "open"
    /\ IF error = "IntercomSipParseError"
       THEN /\ recv_tasks' = [recv_tasks EXCEPT ![k] = "handling"]
            /\ ev' = [NoEv EXCEPT !.t = k, !.kind = "garbled",
                                  !.out = "swallowed", !.error = error]
            /\ UNCHANGED recv_lock
       ELSE /\ recv_tasks' = [recv_tasks EXCEPT ![k] = "none"]
            /\ recv_lock' = LockExit(recv_lock)
            /\ ev' = [NoEv EXCEPT !.t = k, !.kind = "garbled",
                                  !.out = "recv_died", !.error = error]
    /\ running' = NoTask
    /\ UNCHANGED <<status, status_log, sip_started, sock, internet,
                   register_loop, orphans, recv_loop, ping_tasks, ping_loop,
                   task, ops, fires, server, sleepers, callVars>>
    /\ UNCHANGED <<mediaVars, updater>>

\* the 0.01 s sleep ends: leave the `async with` block and loop; release()
\* on a lock somebody else released raises RuntimeError and ends the task
RecvWake(k) ==
    /\ Quiet /\ recv_tasks[k] \in {"locked", "handling"}
    /\ frame[k].pc = "idle"
    /\ IF recv_lock.locked
       THEN /\ recv_tasks' = [recv_tasks EXCEPT ![k] = "top"]
            /\ recv_lock' = LockRelease(recv_lock)
            /\ running' = k
            /\ ev' = NoEv
       ELSE /\ recv_tasks' = [recv_tasks EXCEPT ![k] = "none"]
            /\ running' = NoTask
            /\ ev' = [NoEv EXCEPT !.t = k, !.kind = "recv_died",
                                  !.out = "runtimeerror"]
            /\ UNCHANGED recv_lock
    /\ UNCHANGED <<status, status_log, sip_started, sock, internet,
                   register_loop, orphans, recv_loop, ping_tasks, ping_loop,
                   task, ops, fires, server, sleepers, callVars>>
    /\ UNCHANGED <<mediaVars, updater>>

\* a cancelled recv task is resumed with CancelledError inside the lock
RecvUnwind(k) ==
    /\ running = NoTask /\ recv_tasks[k] = "cancelling"
    /\ recv_tasks' = [recv_tasks EXCEPT ![k] = "none"]
    /\ recv_lock' = LockExit(recv_lock)
    /\ frame' = [frame EXCEPT ![k] = NoFrame]
    /\ ev' = IF frame[k].pc = "idle" THEN NoEv
             ELSE [NoEv EXCEPT !.t = k, !.kind = frame[k].op,
                               !.out = "cancelled", !.obj = frame[k].obj]
    /\ UNCHANGED <<status, status_log, sip_started, sock, internet,
                   register_loop, orphans, recv_loop, ping_tasks, ping_loop,
                   task, running, ops, fires, server, sleepers, calls, call,
                   assigned_ports, re_answer, call_ops, reapers>>
    /\ UNCHANGED <<mediaVars, updater>>

\* the variables of the endpoint a call handler leaves alone
endpointVars == <<status, status_log, sip_started, sock, internet,
                  register_loop, orphans, recv_loop, ping_tasks, ping_loop,
                  task, ops, fires, server>>

\* the handling of a datagram is over: leave `async with` and loop
FinishRecv(k) ==
    /\ recv_tasks' = [recv_tasks EXCEPT ![k] =
                        IF recv_lock.locked THEN "top" ELSE "none"]
    /\ recv_lock' = LockExit(recv_lock)
    /\ running' = IF recv_lock.locked THEN k ELSE NoTask

\* the recv task suspends inside the handling of a datagram: asyncio.sleep(1)
SuspendRecv(k) ==
    /\ recv_tasks' = [recv_tasks EXCEPT ![k] = "handling"]
    /\ sleepers' = Append(RemoveWaiter(sleepers, k), k)
    /\ running' = NoTask
    /\ UNCHANGED recv_lock

\* _callback without the dispatch of the observer
ObservedNever(k, op, o) ==
    [NoEv EXCEPT !.t = k, !.kind = op, !.out = "dropped", !.obj = o]

\* IntercomVoip._callback's tail: the observer is dispatched for the call
Observed(k, op, o) ==
    [NoEv EXCEPT !.t = k, !.kind = op, !.out = "observed", !.obj = o]

NotObserved(k, op, out, o) ==
    [NoEv EXCEPT !.t = k, !.kind = op, !.out = out, !.obj = o]

Methods == {"INVITE", "ACK", "CANCEL", "BYE"}

\* _handle with the call of the coordinator's handler moved before the sends
HandleStepsCallbackFirst(method) ==
    (IF method \in Methods THEN <<"callback">> ELSE <<>>)
    \o (CASE method = "INVITE" -> <<"100", "180">>
          [] method = "CANCEL" -> <<"200", "487">>
          [] method = "BYE"    -> <<"200">>
          [] OTHER             -> <<>>)

\* what IntercomSip._handle does with a request, in order: the status codes
\* of the responses it sends, then "callback" when the message is given to
\* IntercomVoip._callback
HandleSteps(method) ==
    (CASE method = "INVITE" -> <<"100", "180">>
       [] method = "CANCEL" -> <<"200", "487">>
       [] method = "BYE"    -> <<"200">>
       [] OTHER             -> <<>>)
    \o (IF method \in Methods THEN <<"callback">> ELSE <<>>)

\* the event of a handler: with the request's method and what _handle did
Handled(e, method, cid) ==
    [e EXCEPT !.method = method, !.replies = HandleSteps(method),
              !.cid = cid]

\* the handler has suspended inside the coordinator's callback
Entered(k, method, cid) ==
    Handled([NoEv EXCEPT !.t = k, !.kind = "handle"], method, cid)

\* the delay of the clean_call timer _callback_invite arms
VOIP_CLEAN_DELAY == 1800

\* an INVITE is read: _handle answers 100 and 180, _callback_invite creates
\* the Call (or renegotiates a call that no longer rings), the observer is
\* dispatched
RecvInvite(k, cid, offer) ==
    /\ running = k /\ recv_tasks[k] = "reading" /\ sock = "open"
    /\ IF calls[cid] = NoCall
       THEN \E o \in Objs : \E ps \in PortDraws(assigned_ports,
                                    IF PortsFit(offer) THEN Len(offer.m) ELSE 0) :
            /\ call[o].state = "none"
            /\ \A x \in Objs : call[x].state = "none" => o <= x
            /\ call' = [call EXCEPT ![o] =
                          [state |-> "ringing", call_id |-> cid,
                           clients |-> IF PortsFit(offer)
                                       THEN FillClients(offer, ps) ELSE <<>>]]
            /\ assigned_ports' = assigned_ports \cup {ps[i] : i \in DOMAIN ps}
            /\ calls' = [calls EXCEPT ![cid] = o]
            /\ reapers' = [reapers EXCEPT
                             ![cid] = Append(@, VOIP_CLEAN_DELAY)]
            /\ ev' = [Handled(Observed(k, "invite", o), "INVITE", cid)
                         EXCEPT !.offer = offer]
            /\ FinishRecv(k)
            /\ UNCHANGED <<frame, sleepers>>
       ELSE LET o == calls[cid]
                a == NextAudio(call, o, 1) IN
            /\ UNCHANGED <<calls, assigned_ports, reapers>>
            /\ IF call[o].state = "ringing" \/ a = 0
               THEN \* nothing to restart: answer (if renegotiating), done
                    /\ ev' = [Handled(Observed(k, "invite", o), "INVITE",
                                      cid) EXCEPT !.known = TRUE]
                    /\ FinishRecv(k)
                    /\ UNCHANGED <<call, frame, sleepers>>
               ELSE \* Call.renegotiate -> _gen_ms: stop the first audio client
                    /\ call' = ClientStopBegin(call, o, a)
                    /\ frame' = [frame EXCEPT ![k] =
                                   [NoFrame EXCEPT !.pc = "gen_ms",
                                      !.op = "invite", !.obj = o, !.cur = o,
                                      !.cid = cid, !.i = a]]
                    /\ ev' = [Entered(k, "INVITE", cid) EXCEPT !.known = TRUE]
                    /\ SuspendRecv(k)
    /\ UNCHANGED <<endpointVars, re_answer, call_ops>>
    /\ UNCHANGED <<mediaVars, updater>>

\* an ACK is read
RecvAck(k, cid) ==
    /\ running = k /\ recv_tasks[k] = "reading" /\ sock = "open"
    /\ IF calls[cid] = NoCall
       THEN /\ ev' = Handled(NotObserved(k, "ack", "unknown", NoCall), "ACK",
                            cid)
            /\ UNCHANGED call
       ELSE /\ call' = [call EXCEPT ![calls[cid]].state = AckState(@)]
            /\ ev' = Handled(Observed(k, "ack", calls[cid]), "ACK", cid)
    /\ FinishRecv(k)
    /\ UNCHANGED <<endpointVars, calls, assigned_ports, frame, sleepers,
                   re_answer, call_ops, reapers>>
    /\ UNCHANGED <<mediaVars, updater>>

\* IntercomVoip.clean_call entered by task t for call-id cid on behalf of
\* operation op: either suspended in the first client's stop (TRUE) or,
\* with nothing to stop or no such call, already over (FALSE)
CleanSuspends(cid) == calls[cid] # NoCall /\ call[calls[cid]].clients # <<>>

\* a BYE or CANCEL is read: _handle answers, _callback_bye_or_cancel ends
\* the call, stops its clients, cleans it, and the observer is dispatched
RecvBye(k, cid, method) ==
    /\ running = k /\ recv_tasks[k] = "reading" /\ sock = "open"
    /\ IF calls[cid] = NoCall
       THEN /\ ev' = Handled(NotObserved(k, "bye", "unknown", NoCall), method,
                            cid)
            /\ FinishRecv(k)
            /\ UNCHANGED <<calls, call, frame, sleepers>>
       ELSE LET o == calls[cid]
                ended == [call EXCEPT ![o].state = "ended"] IN
            IF call[o].clients = <<>>
            THEN \* stop_rtp and clean_call have nothing to wait for
                 /\ call' = ended
                 /\ calls' = [calls EXCEPT ![cid] = NoCall]
                 /\ ev' = Handled(Observed(k, "bye", o), method, cid)
                 /\ FinishRecv(k)
                 /\ UNCHANGED <<frame, sleepers>>
            ELSE /\ call' = ClientStopBegin(ended, o, 1)
                 /\ frame' = [frame EXCEPT ![k] =
                                [NoFrame EXCEPT !.pc = "bye_stop", !.op = "bye",
                                   !.obj = o, !.cur = o, !.cid = cid, !.i = 1]]
                 /\ ev' = Entered(k, method, cid)
                 /\ SuspendRecv(k)
                 /\ UNCHANGED calls
    /\ UNCHANGED <<endpointVars, assigned_ports, re_answer, call_ops,
                   reapers>>
    /\ UNCHANGED <<mediaVars, updater>>

\* the BYE handler resumes after a client's one-second sleep
ByeWake(k) ==
    /\ Quiet /\ recv_tasks[k] = "handling"
    /\ frame[k].pc \in {"bye_stop", "bye_clean"}
    /\ sleepers # <<>> /\ Head(sleepers) = k
    /\ LET f == frame[k]
           closed == ClientStopEnd(call, f.cur, f.i) IN
       IF f.i < Len(call[f.cur].clients)
       THEN \* the next client of the same pass
            /\ call' = ClientStopBegin(closed, f.cur, f.i + 1)
            /\ frame' = [frame EXCEPT ![k].i = f.i + 1]
            /\ ev' = NoEv
            /\ SuspendRecv(k)
            /\ UNCHANGED calls
       ELSE IF f.pc = "bye_stop" /\ CleanSuspends(f.cid)
       THEN \* clean_call: stop the clients of the call now in the map
            /\ call' = ClientStopBegin(closed, calls[f.cid], 1)
            /\ frame' = [frame EXCEPT ![k].pc = "bye_clean",
                                      ![k].cur = calls[f.cid], ![k].i = 1]
            /\ ev' = NoEv
            /\ SuspendRecv(k)
            /\ UNCHANGED calls
       ELSE IF f.pc = "bye_clean" /\ calls[f.cid] = NoCall
       THEN \* del self.calls[call_id] raises KeyError: the recv task ends
            /\ call' = closed
            /\ frame' = [frame EXCEPT ![k] = NoFrame]
            /\ ev' = NotObserved(k, "bye", "keyerror", f.obj)
            /\ recv_tasks' = [recv_tasks EXCEPT ![k] = "none"]
            /\ recv_lock' = LockExit(recv_lock)
            /\ sleepers' = Tail(sleepers)
            /\ running' = NoTask
            /\ UNCHANGED calls
       ELSE /\ call' = closed
            /\ calls' = [calls EXCEPT ![f.cid] = NoCall]
            /\ frame' = [frame EXCEPT ![k] = NoFrame]
            /\ ev' = Observed(k, "bye", f.obj)
            /\ sleepers' = Tail(sleepers)
            /\ FinishRecv(k)
    /\ UNCHANGED <<endpointVars, assigned_ports, re_answer, call_ops,
                   reapers>>
    /\ UNCHANGED <<mediaVars, updater>>

\* the variables a call operation leaves alone even when it sends
quietVars == <<sip_started, register_loop, orphans, recv_loop, ping_tasks,
               ping_loop, task, ops, fires, server>>

\* Call._gen_ms resumes after a client's one-second sleep (in Call.answer
\* or, for the recv task, in Call.renegotiate): close the client, start it
\* again, go on to the next audio client or send the answer
GenMsWake(t) ==
    /\ Quiet /\ frame[t].pc = "gen_ms"
    /\ t \in LoopIds => recv_tasks[t] = "handling"
    /\ sleepers # <<>> /\ Head(sleepers) = t
    /\ LET f == frame[t]
           closed == ClientStopEnd(call, f.obj, f.i)
           started == ClientStart(closed, f.obj, f.i)
           nxt == NextAudio(started, f.obj, f.i + 1) IN
       /\ UNCHANGED <<calls, assigned_ports, call_ops, reapers, quietVars>>
       /\ IF StartRaises(closed, f.obj, f.i)
          THEN \* bind raises OSError: nobody catches it, the task ends
               /\ call' = started
               /\ frame' = [frame EXCEPT ![t] = NoFrame]
               /\ ev' = NotObserved(t, f.op, "oserror", f.obj)
               /\ sleepers' = Tail(sleepers)
               /\ IF t \in LoopIds
                  THEN /\ recv_tasks' = [recv_tasks EXCEPT ![t] = "none"]
                       /\ recv_lock' = LockExit(recv_lock)
                  ELSE UNCHANGED <<recv_tasks, recv_lock>>
               /\ running' = NoTask
               /\ UNCHANGED <<status, status_log, internet, sock, re_answer>>
          ELSE IF nxt # 0
          THEN /\ call' = ClientStopBegin(started, f.obj, nxt)
               /\ frame' = [frame EXCEPT ![t].i = nxt]
               /\ ev' = NoEv
               /\ sleepers' = Append(Tail(sleepers), t)
               /\ running' = NoTask
               /\ UNCHANGED <<status, status_log, internet, sock, re_answer,
                              recv_tasks, recv_lock>>
          ELSE \* sip.answer; Call.answer also arms _re_answer 2 s later
               /\ call' = started
               /\ frame' = [frame EXCEPT ![t] = NoFrame]
               /\ status' = SendStatus
               /\ status_log' = SendLog
               /\ internet' = SendInternet
               /\ sleepers' = Tail(sleepers)
               /\ UNCHANGED sock
               /\ IF t \in LoopIds /\ calls[f.cid] = NoCall
                  THEN \* return self.calls[call_id] raises KeyError
                       /\ ev' = NotObserved(t, f.op, "keyerror", f.obj)
                       /\ recv_tasks' = [recv_tasks EXCEPT ![t] = "none"]
                       /\ recv_lock' = LockExit(recv_lock)
                       /\ running' = NoTask
                       /\ UNCHANGED re_answer
                  ELSE IF t \in LoopIds
                  THEN /\ ev' = Observed(t, f.op, calls[f.cid])
                       /\ FinishRecv(t)
                       /\ UNCHANGED re_answer
                  ELSE /\ ev' = [NotObserved(t, f.op, "done", f.obj)
                                    EXCEPT !.sent = 1]
                       /\ re_answer' = [re_answer EXCEPT ![f.obj] = @ + 1]
                       /\ running' = NoTask
                       /\ UNCHANGED <<recv_tasks, recv_lock>>
    /\ UNCHANGED <<mediaVars, updater>>

\* Call.answer entered by task t for call o, ra the pending timers
AnswerBegin(t, o, ra) ==
    LET a == NextAudio(call, o, 1) IN
    /\ UNCHANGED <<calls, assigned_ports, quietVars, recv_tasks, recv_lock,
                   sock, reapers>>
    /\ IF a = 0
       THEN /\ status' = SendStatus
            /\ status_log' = SendLog
            /\ internet' = SendInternet
            /\ re_answer' = [ra EXCEPT ![o] = @ + 1]
            /\ ev' = [NotObserved(t, "answer", "done", o) EXCEPT !.sent = 1]
            /\ UNCHANGED <<call, frame, sleepers>>
       ELSE /\ call' = ClientStopBegin(call, o, a)
            /\ frame' = [frame EXCEPT ![t] =
                           [NoFrame EXCEPT !.pc = "gen_ms", !.op = "answer",
                              !.obj = o, !.cur = o, !.cid = call[o].call_id,
                              !.i = a]]
            /\ sleepers' = Append(sleepers, t)
            /\ ev' = NoEv
            /\ re_answer' = ra
            /\ UNCHANGED <<status, status_log, internet>>
    /\ running' = NoTask

\* a local operation on call o is refused: IntercomInvalidStateError is
\* raised to the caller before anything is done
\* a Call operation that never looks at the state
RefusesNothing(op, s) == FALSE

\* the state checks at the entry of answer, decline, hangup and write_audio;
\* read_audio has none
Refuses(op, s) ==
    CASE op \in {"answer", "decline"}    -> s # "ringing"
      [] op \in {"hangup", "write_audio"} -> s # "answered"
      [] OTHER                            -> FALSE

Refused(op, o) ==
    /\ ev' = NotObserved(CallT, op, "invalid_state", o)
    /\ UNCHANGED <<calls, call, assigned_ports, frame, re_answer, reapers,
                   quietVars, recv_tasks, recv_lock, sock, status,
                   status_log, internet, sleepers, running>>

\* a caller invokes Call.answer
LocalAnswer(o) ==
    /\ Quiet /\ frame[CallT].pc = "idle" /\ call_ops < MaxCallOps
    /\ call[o].state # "none"
    /\ call_ops' = IF Refuses("answer", call[o].state) THEN call_ops
                   ELSE call_ops + 1
    /\ IF Refuses("answer", call[o].state)
       THEN Refused("answer", o)
       ELSE AnswerBegin(CallT, o, re_answer)
    /\ UNCHANGED <<mediaVars, updater>>

\* the 2 s timer of Call.answer fires: _re_answer answers again while the
\* call still rings
ReAnswerFire(o) ==
    /\ Quiet /\ frame[ReT].pc = "idle" /\ re_answer[o] > 0
    /\ IF call[o].state # "ringing"
       THEN /\ re_answer' = [re_answer EXCEPT ![o] = @ - 1]
            /\ ev' = NotObserved(ReT, "re_answer", "skipped", o)
            /\ UNCHANGED <<calls, call, assigned_ports, frame, quietVars,
                           recv_tasks, recv_lock, sock, status, status_log,
                           internet, sleepers, running, reapers>>
       ELSE AnswerBegin(ReT, o, [re_answer EXCEPT ![o] = @ - 1])
    /\ UNCHANGED call_ops
    /\ UNCHANGED <<mediaVars, updater>>

\* a caller invokes Call.decline: on a ringing call send 603, state ended
LocalDecline(o) ==
    /\ Quiet /\ frame[CallT].pc = "idle" /\ call_ops < MaxCallOps
    /\ call[o].state # "none"
    /\ call_ops' = IF Refuses("decline", call[o].state) THEN call_ops
                   ELSE call_ops + 1
    /\ IF Refuses("decline", call[o].state)
       THEN Refused("decline", o)
       ELSE /\ call' = [call EXCEPT ![o].state = "ended"]
            /\ status' = SendStatus
            /\ status_log' = SendLog
            /\ internet' = SendInternet
            /\ ev' = [NotObserved(CallT, "decline", "done", o)
                         EXCEPT !.sent = 1]
            /\ UNCHANGED <<calls, assigned_ports, frame, re_answer,
                           quietVars, recv_tasks, recv_lock, sock, sleepers,
                           running, reapers>>
    /\ UNCHANGED <<mediaVars, updater>>

\* IntercomVoip.clean_call entered by the hangup of call-id cid after the
\* BYE was sent: suspended in a client's stop, or over
HangupClean(t, o, cid, cl, sl) ==
    /\ status' = SendStatus
    /\ status_log' = SendLog
    /\ internet' = SendInternet
    /\ LET ended == [cl EXCEPT ![o].state = "ended"] IN
       IF calls[cid] # NoCall /\ ended[calls[cid]].clients # <<>>
       THEN /\ call' = ClientStopBegin(ended, calls[cid], 1)
            /\ frame' = [frame EXCEPT ![t] =
                           [NoFrame EXCEPT !.pc = "hang_clean",
                              !.op = "hangup", !.obj = o, !.cur = calls[cid],
                              !.cid = cid, !.i = 1]]
            /\ sleepers' = Append(sl, t)
            /\ ev' = [NotObserved(t, "hangup", "bye_sent", o)
                         EXCEPT !.sent = 1]
            /\ UNCHANGED calls
       ELSE /\ call' = ended
            /\ calls' = [calls EXCEPT ![cid] = NoCall]
            /\ frame' = [frame EXCEPT ![t] = NoFrame]
            /\ sleepers' = sl
            /\ ev' = [NotObserved(t, "hangup", "done", o) EXCEPT !.sent = 1]

\* a caller invokes Call.hangup on an answered call: stop_rtp, send BYE,
\* state ended, clean_call
LocalHangup(o) ==
    /\ Quiet /\ frame[CallT].pc = "idle" /\ call_ops < MaxCallOps
    /\ call[o].state # "none"
    /\ call_ops' = IF Refuses("hangup", call[o].state) THEN call_ops
                   ELSE call_ops + 1
    /\ IF Refuses("hangup", call[o].state)
       THEN Refused("hangup", o)
       ELSE /\ IF call[o].clients = <<>>
               THEN HangupClean(CallT, o, call[o].call_id, call, sleepers)
               ELSE /\ call' = ClientStopBegin(call, o, 1)
                    /\ frame' = [frame EXCEPT ![CallT] =
                                   [NoFrame EXCEPT !.pc = "hang_stop",
                                      !.op = "hangup", !.obj = o, !.cur = o,
                                      !.cid = call[o].call_id, !.i = 1]]
                    /\ sleepers' = Append(sleepers, CallT)
                    /\ ev' = NoEv
                    /\ UNCHANGED <<calls, status, status_log, internet>>
            /\ UNCHANGED <<assigned_ports, re_answer, quietVars, recv_tasks,
                           recv_lock, sock, running, reapers>>
    /\ UNCHANGED <<mediaVars, updater>>

\* Call.hangup resumes after a client's one-second sleep
HangupWake(t) ==
    /\ Quiet /\ frame[t].pc \in {"hang_stop", "hang_clean"}
    /\ sleepers # <<>> /\ Head(sleepers) = t
    /\ LET f == frame[t]
           closed == ClientStopEnd(call, f.cur, f.i) IN
       IF f.i < Len(call[f.cur].clients)
       THEN /\ call' = ClientStopBegin(closed, f.cur, f.i + 1)
            /\ frame' = [frame EXCEPT ![t].i = f.i + 1]
            /\ sleepers' = Append(Tail(sleepers), t)
            /\ ev' = NoEv
            /\ UNCHANGED <<calls, status, status_log, internet>>
       ELSE IF f.pc = "hang_stop"
       THEN HangupClean(t, f.obj, f.cid, closed, Tail(sleepers))
       ELSE \* clean_call's del self.calls[call_id]; KeyError if it is gone
            /\ call' = closed
            /\ calls' = [calls EXCEPT ![f.cid] = NoCall]
            /\ frame' = [frame EXCEPT ![t] = NoFrame]
            /\ sleepers' = Tail(sleepers)
            /\ ev' = NotObserved(t, f.op,
                        IF calls[f.cid] = NoCall THEN "keyerror" ELSE "done",
                        f.obj)
            /\ UNCHANGED <<status, status_log, internet>>
    /\ UNCHANGED <<assigned_ports, re_answer, call_ops, quietVars, recv_tasks,
                   recv_lock, sock, running, reapers>>
    /\ UNCHANGED <<mediaVars, updater>>

\* a clean_call timer of Call-ID cid expires: the task it creates runs
\* IntercomVoip.clean_call(cid) on whatever call the map holds under cid
ReapFire(cid) ==
    /\ Quiet /\ frame[ReapT].pc = "idle" /\ reapers[cid] # <<>>
    /\ reapers' = [reapers EXCEPT ![cid] = Tail(@)]
    /\ IF calls[cid] = NoCall
       THEN /\ ev' = NotObserved(ReapT, "reap", "unknown", NoCall)
            /\ UNCHANGED <<calls, call, frame, sleepers>>
       ELSE IF call[calls[cid]].clients # <<>>
       THEN \* call.stop_rtp(): suspended in the first client's stop
            /\ call' = ClientStopBegin(call, calls[cid], 1)
            /\ frame' = [frame EXCEPT ![ReapT] =
                           [NoFrame EXCEPT !.pc = "hang_clean", !.op = "reap",
                              !.obj = calls[cid], !.cur = calls[cid],
                              !.cid = cid, !.i = 1]]
            /\ sleepers' = Append(sleepers, ReapT)
            /\ ev' = NoEv
            /\ UNCHANGED calls
       ELSE /\ calls' = [calls EXCEPT ![cid] = NoCall]
            /\ ev' = NotObserved(ReapT, "reap", "done", calls[cid])
            /\ UNCHANGED <<call, frame, sleepers>>
    /\ UNCHANGED <<assigned_ports, re_answer, call_ops, quietVars, recv_tasks,
                   recv_lock, sock, running, status, status_log, internet>>
    /\ UNCHANGED <<mediaVars, updater>>

\* one round of the keepalive loop: leave when not started, else _send.
\* sendto raises OSError on a closed socket and, on an open one, whenever
\* the network is unreachable: _internet_connect = False and status failed.
\* The first send that succeeds after a failure reports inactive with
\* register=True, and _change_status schedules safe_start(SIP_DEFAULT_RETRY),
\* here with the largest retry count followed, as one of the MaxOps
\* operations of the coordinator and when no other is under way
PingStep(k) ==
    /\ Quiet /\ ping_tasks[k] = "alive"
    /\ IF ~sip_started
       THEN /\ ping_tasks' = [ping_tasks EXCEPT ![k] = "none"]
            /\ ev' = [NoEv EXCEPT !.t = k, !.kind = "ping", !.out = "left"]
            /\ UNCHANGED <<internet, status, status_log, task, ops>>
       ELSE /\ UNCHANGED ping_tasks
            /\ \E sent \in IF sock = "open" THEN BOOLEAN ELSE {FALSE} :
                 IF ~sent
                 THEN /\ internet' = FALSE
                      /\ status' = "failed"
                      /\ status_log' = Log(status_log, "failed")
                      /\ ev' = [NoEv EXCEPT !.t = k, !.kind = "ping",
                                            !.out = "failed"]
                      /\ UNCHANGED <<task, ops>>
                 ELSE IF internet
                 THEN /\ ev' = [NoEv EXCEPT !.t = k, !.kind = "ping",
                                            !.out = "sent"]
                      /\ UNCHANGED <<internet, status, status_log, task,
                                     ops>>
                 ELSE /\ task[ApiT].pc = "idle" /\ ops < MaxOps
                      /\ ops' = ops + 1
                      /\ internet' = TRUE
                      /\ status' = "inactive"
                      /\ status_log' = Log(status_log, "inactive")
                      /\ task' = [task EXCEPT ![ApiT] =
                                    [IdleTask EXCEPT
                                       !.pc = "sip_stop", !.op = "safe_start",
                                       !.force = TRUE, !.retry = 1,
                                       !.total_retry = MaxRetry,
                                       !.from = "inactive"]]
                      /\ ev' = [NoEv EXCEPT !.t = k, !.kind = "ping",
                                            !.out = "recovered"]
    /\ UNCHANGED <<sip_started, recv_lock, sock, register_loop, orphans,
                   recv_tasks, recv_loop, ping_loop, running, fires,
                   server, sleepers, callVars>>
    /\ UNCHANGED <<mediaVars, updater>>

\* ------------------------------------------------------ RtpPacketManager
\* write() rebuilds instead of resetting when the new offset is below the
\* base by less than this
ResetDistance == 100000
\* the class default of _offset, 4294967296: above every offset of the model
\* and further than ResetDistance from each
Unset == 0 - 1
\* the offsets (RTP timestamps) written: a few bytes around PmBase, and one
\* a reset's distance below
PmBase == 200000
MaxSpan == 1
Offsets == {PmBase + d : d \in (0 - MaxSpan)..MaxSpan}
               \cup {PmBase - ResetDistance}
\* the largest distance above the base a write is followed for
MaxRel == 2 * MaxSpan
Payloads == {<<1>>, <<2, 3>>}
ReadLengths == {1, 2}

\* RtpPacketManager.__init__
FreshManager ==
    [offset |-> Unset, history |-> <<>>, buffer |-> <<>>, pos |-> 0,
     lock |-> "free", rebuilding |-> FALSE]

IdleManagerTasks ==
    [w |-> "idle", saved |-> 0, r |-> "idle", want |-> 0, packet |-> <<>>,
     started |-> FALSE, c |-> "idle", spins |-> 0]

\* self._history[offset] = data: a dict keeps the place of a key it has
HistoryPut(h, off, data) ==
    IF \E i \in DOMAIN h : h[i][1] = off
    THEN [i \in DOMAIN h |-> IF h[i][1] = off THEN <<off, data>> ELSE h[i]]
    ELSE Append(h, <<off, data>>)

\* BytesIO: seek(at), write(data); a gap past the end is filled with zeros
WriteAt(b, at, data) ==
    LET n == IF Len(b) > at + Len(data) THEN Len(b) ELSE at + Len(data) IN
    [i \in 1..n |->
        IF i > at /\ i <= at + Len(data) THEN data[i - at]
        ELSE IF i <= Len(b) THEN b[i] ELSE 0]

\* BytesIO.read(length) from position pos
ReadEnd(b, pos, length) ==
    IF pos + length < Len(b) THEN pos + length
    ELSE IF pos < Len(b) THEN Len(b) ELSE pos

\* read() without the padding
ReadPacketUnpadded(b, pos, length) ==
    [i \in 1..(ReadEnd(b, pos, length) - pos) |-> b[pos + i]]

\* read()'s packet: what the buffer holds, filled up with 0x80
ReadPacket(b, pos, length) ==
    [i \in 1..length |-> IF pos + i <= Len(b) THEN b[pos + i] ELSE 128]

\* RtpPacketManager.write(offset, data), up to where it returns or blocks.
\* Below the base and at least ResetDistance away, rebuild(True) starts over
\* from this one packet. Below the base and nearer, rebuild(False) takes a
\* fresh buffer and calls self.write for the first history entry while this
\* write still holds _buffer_lock: asyncio.Lock is not reentrant, so the
\* nested write waits for a lock only its own caller can release.
PmWrite(off, data) ==
    /\ pmt.w = "idle" /\ pm.lock = "free"
    /\ (pm.offset # Unset /\ off >= pm.offset) => off - pm.offset <= MaxRel
    /\ LET h == HistoryPut(pm.history, off, data) IN
       IF pm.offset = Unset \/ off < pm.offset
       THEN IF pm.offset = Unset \/ pm.offset - off >= ResetDistance
            THEN /\ pm' = [pm EXCEPT !.offset = off,
                                     !.history = <<<<off, data>>>>,
                                     !.buffer = data, !.pos = 0]
                 /\ UNCHANGED pmt
            ELSE /\ pm' = [pm EXCEPT !.offset = off, !.history = h,
                                     !.buffer = <<>>, !.pos = 0,
                                     !.lock = "writer", !.rebuilding = TRUE]
                 /\ pmt' = [pmt EXCEPT !.w = "replaying", !.saved = pm.pos]
       ELSE /\ pm' = [pm EXCEPT !.history = h,
                                !.buffer = WriteAt(@, off - pm.offset, data)]
            /\ UNCHANGED pmt
    /\ UNCHANGED <<sipVars, callVars, stream, updater>>

\* RtpPacketManager.read(length): wait 0.01 s at a time while _rebuilding,
\* then read under the lock
PmRead(length) ==
    /\ pmt.c = "idle"
    /\ IF pm.rebuilding
       THEN /\ pmt' = [pmt EXCEPT !.r = "spinning", !.want = length]
            /\ UNCHANGED pm
       ELSE /\ pm.lock = "free"
            /\ pm' = [pm EXCEPT !.pos = ReadEnd(pm.buffer, pm.pos, length)]
            /\ pmt' = [pmt EXCEPT !.r = "idle", !.want = length,
                          !.packet = ReadPacket(pm.buffer, pm.pos, length)]
    /\ UNCHANGED <<sipVars, callVars, stream, updater>>

\* ------------------------------------------------- RtpClient, inbound
\* the sleeps of one RtpClient.read that are followed
MaxSpins == 3

\* b"\x80" * length
Silence(length) == [i \in 1..length |-> 128]

\* RtpClient.start and stop as far as _started goes
ClientSetStarted(b) ==
    /\ pmt.started # b
    /\ pmt' = [pmt EXCEPT !.started = b]
    /\ UNCHANGED <<pm, sipVars, callVars, stream, updater>>

\* RtpClient.read(length, blocking), from its call or from its 0.01 s sleep
\* to where it returns or sleeps again: one read of the inbound packet
\* manager (which waits while _rebuilding), repeated after a sleep while
\* the packet is all 0x80 and the client is started
ClientRead(length, blocking) ==
    /\ \/ pmt.c = "idle" /\ pmt.r = "idle"
       \/ pmt.c = "sleeping" /\ length = pmt.want /\ blocking
    /\ LET packet == ReadPacket(pm.buffer, pm.pos, length)
           called == [pmt EXCEPT !.want = length] IN
       IF pm.rebuilding
       THEN /\ pmt' = [called EXCEPT !.c = "in_pm", !.r = "spinning"]
            /\ UNCHANGED pm
       ELSE /\ pm.lock = "free"
            /\ pm' = [pm EXCEPT !.pos = ReadEnd(pm.buffer, pm.pos, length)]
            /\ IF blocking /\ packet = Silence(length) /\ pmt.started
               THEN /\ pmt.spins < MaxSpins
                    /\ pmt' = [called EXCEPT !.c = "sleeping",
                                             !.spins = @ + 1,
                                             !.packet = packet]
               ELSE pmt' = [called EXCEPT !.c = "idle", !.spins = 0,
                                          !.packet = packet]
    /\ UNCHANGED <<sipVars, callVars, stream, updater>>

\* ------------------------------------------------- RtpClient, outbound
\* RtpPayloadType.PCMA
PCMA == 8
\* the bytes _trans reads from the packet manager for one packet; A-law
\* encodes each into one byte
PayloadLength == 160
\* values random.randint gives _out_sequence (1..100) and _out_timestamp
\* (1..10000) that are followed, and the _ssrc
SequenceStarts == {1, 100}
TimestampStarts == {10000}
Ssrc == 1000
\* the stream is followed to this _out_sequence: just past the 16-bit range
MaxSequence == 65538

NoPacket == [header |-> <<>>, length |-> 0]

\* RtpClient before __init__
NoStream ==
    [st |-> "none", sequence |-> 0, timestamp |-> 0, count |-> 0,
     last |-> NoPacket, prev |-> NoPacket]

\* int.to_bytes(2, "big") under contextlib.suppress(OverflowError): a value
\* that does not fit adds nothing to the packet
Bytes2(v) == IF v >= 65536 THEN <<>> ELSE <<v \div 256, v % 256>>

\* int.to_bytes(4, "big"); every value of the model fits
Bytes4(v) ==
    <<v \div 16777216, (v \div 65536) % 256, (v \div 256) % 256, v % 256>>

\* helper.add_bytes: the big-endian number a byte string spells
RECURSIVE add_bytes(_)
add_bytes(bs) ==
    IF bs = <<>> THEN 0
    ELSE add_bytes(SubSeq(bs, 1, Len(bs) - 1)) * 256 + bs[Len(bs)]

\* RtpClient._encode_packet for a PCMA client: the header and the length of
\* the encoded payload
EncodePacket(sequence, timestamp) ==
    [header |-> <<128, PCMA>> \o Bytes2(sequence) \o Bytes4(timestamp)
                   \o Bytes4(Ssrc),
     length |-> PayloadLength]

\* RtpMessage._parse: the sequence number is bytes 2..3 of the packet, the
\* timestamp bytes 4..7
SequenceField(p) == SubSeq(p.header, 3, 4)
TimestampField(p) == SubSeq(p.header, 5, 8)

\* RtpClient.__init__ draws the counters; start() begins transmitting
RtpStart ==
    /\ stream.st = "none"
    /\ \E s \in SequenceStarts : \E ts \in TimestampStarts :
         stream' = [NoStream EXCEPT !.st = "live", !.sequence = s,
                                 !.timestamp = ts]
    /\ UNCHANGED <<sipVars, callVars, pm, pmt, updater>>

\* one round of RtpClient._trans whose sendto succeeds
RtpTransmit ==
    /\ stream.st = "live" /\ stream.sequence <= MaxSequence
    /\ LET p == EncodePacket(stream.sequence, stream.timestamp) IN
       stream' = [stream EXCEPT !.prev = stream.last, !.last = p,
                          !.count = IF @ < 2 THEN @ + 1 ELSE @,
                          !.sequence = @ + 1,
                          !.timestamp = @ + p.length]
    /\ UNCHANGED <<sipVars, callVars, pm, pmt, updater>>

\* one round whose sendto raises OSError: nothing is transmitted and,
\* inside the same suppress block, the counters are not advanced
RtpSendFails ==
    /\ stream.st = "live"
    /\ UNCHANGED vars

\* ------------------------------------------------------------ the updater
\* the coordinators the updater is followed to
MaxVoips == 3
\* the SIP settings the API returns, told apart by a number; 0 is a response
\* without success, and data before the first response
Settings == {1, 2}

\* IntercomUpdater.__init__: no settings in data, voip None (0)
FreshUpdater ==
    [data |-> 0, voip |-> 0,
     voips |-> [v \in 1..MaxVoips |->
                  [pc |-> "none", bound |-> FALSE, retry |-> 0]]]

\* _async_prepare_sip_settings with the API's response: when a setting is
\* new or differs, a new IntercomVoip takes the place of self.voip and its
\* safe_start is scheduled; the coordinator that was there is let go as it is
PrepareSipSettings(response) ==
    LET init == response # 0 /\ response # updater.data
        made == Cardinality({v \in 1..MaxVoips :
                                updater.voips[v].pc # "none"}) IN
    /\ init => made < MaxVoips
    /\ updater' =
         IF init
         THEN [updater EXCEPT
                 !.data = response, !.voip = made + 1,
                 !.voips[made + 1] =
                     [pc |-> "scheduled", bound |-> FALSE, retry |-> 1]]
         ELSE updater
    /\ UNCHANGED <<sipVars, callVars, mediaVars>>

\* IntercomVoip.safe_start of coordinator v begins, or begins again after
\* its pause: sip.stop(True) clears _started and sleeps one second
VoipSafeStart(v) ==
    /\ updater.voips[v].pc \in {"scheduled", "retry_sleep"}
    /\ updater' = [updater EXCEPT !.voips[v].pc = "stop_sleep"]
    /\ UNCHANGED <<sipVars, callVars, mediaVars>>

\* sip.stop(True) after its sleep: force, so open_sockets, which binds a new
\* socket to (local ip, SIP_PORT) when the endpoint has none: bind raises
\* OSError while another endpoint's socket holds the port (SO_REUSEADDR is
\* set only after the bind), and nothing catches it. Then _deregister,
\* answered or not: an IntercomError makes safe_start pause and start over
\* while retry <= total_retry, else return False
VoipStopWake(v, answered) ==
    LET e == updater.voips[v] IN
    /\ e.pc = "stop_sleep"
    /\ updater' =
         IF ~e.bound /\ \E w \in 1..MaxVoips : updater.voips[w].bound
         THEN [updater EXCEPT !.voips[v].pc = "dead"]
         ELSE IF answered
         THEN [updater EXCEPT !.voips[v].pc = "starting",
                              !.voips[v].bound = TRUE]
         ELSE IF e.retry <= MaxRetry
         THEN [updater EXCEPT !.voips[v].pc = "retry_sleep",
                              !.voips[v].bound = TRUE,
                              !.voips[v].retry = @ + 1]
         ELSE [updater EXCEPT !.voips[v].pc = "failed",
                              !.voips[v].bound = TRUE]
    /\ UNCHANGED <<sipVars, callVars, mediaVars>>

\* IntercomVoip.start inside safe_start: registered, the receive and ping
\* tasks running, or failed and False when the handshake raised
VoipStart(v, answered) ==
    /\ updater.voips[v].pc = "starting"
    /\ updater' = [updater EXCEPT !.voips[v].pc =
                      IF answered THEN "registered" ELSE "failed"]
    /\ UNCHANGED <<sipVars, callVars, mediaVars>>

\* --------------------------------------------------------- the endpoint spec
\* IntercomVoip.__init__ / IntercomSip.__init__
Constructed ==
    /\ status = "inactive"
    /\ status_log = <<"inactive">>
    /\ sip_started = FALSE
    /\ recv_lock = FreeLock
    /\ sock = "none"
    /\ internet = TRUE
    /\ register_loop = NoTimer
    /\ orphans = 0
    /\ recv_tasks = [k \in LoopIds |-> "none"]
    /\ recv_loop = NoTask
    /\ ping_tasks = [k \in LoopIds |-> "none"]
    /\ ping_loop = NoTask
    /\ task = [t \in Tasks |-> IdleTask]
    /\ running = NoTask
    /\ ops = 0
    /\ fires = 0
    /\ sleepers = <<>>
    /\ calls = [c \in CallIds |-> NoCall]
    /\ call = [o \in Objs |-> NoObject]
    /\ assigned_ports = {}
    /\ frame = [t \in FrameTasks |-> NoFrame]
    /\ re_answer = [o \in Objs |-> 0]
    /\ call_ops = 0
    /\ reapers = [c \in CallIds |-> <<>>]
    /\ pm = FreshManager
    /\ pmt = IdleManagerTasks
    /\ stream = NoStream
    /\ updater = FreshUpdater
    /\ ev = NoEv

SipInit == Constructed /\ server = "any"

SipTaskStep(t) ==
    \/ SipStopBegin(t) \/ SipStopWake(t)
    \/ DeregEnter(t) \/ DeregResume(t) \/ DeregFinish(t) \/ DeregRetry(t)
    \/ StopReturn(t) \/ SafeStartRetry(t)
    \/ SipStart(t) \/ RegEnter(t) \/ RegResume(t) \/ RegFinish(t)
    \/ RegRetry(t) \/ StartReturn(t)

SipLoopStep(k) ==
    \/ RecvLoopTop(k) \/ RecvResume(k) \/ RecvNothing(k)
    \/ \E error \in ParseFailures : RecvGarbled(k, error)
    \/ RecvWake(k) \/ RecvUnwind(k)
    \/ PingStep(k)

SipNext ==
    \/ ApiStart \/ ApiStop \/ ApiSafeStart \/ TimerFire
    \/ \E t \in Tasks : SipTaskStep(t)
    \/ \E k \in LoopIds : SipLoopStep(k)

SipSpec == SipInit /\ [][SipNext]_vars

\* ------------------------------------------------ the endpoint with calls
\* a registered endpoint on a healthy server: INVITE, ACK, BYE and CANCEL
\* arrive for a few Call-IDs while callers answer, decline and hang up,
\* the coordinator is stopped and started and the re-register timer fires
CallInit == Constructed /\ server = "ok"

CallTaskStep(t) ==
    \/ SipStopBegin(t) \/ SipStopWake(t)
    \/ DeregEnter(t) \/ DeregResume(t) \/ DeregFinish(t)
    \/ StopReturn(t) \/ EndCallsWake(t)
    \/ SipStart(t) \/ RegEnter(t) \/ RegResume(t) \/ RegFinish(t)
    \/ StartReturn(t)

CallLoopStep(k) ==
    \/ RecvLoopTop(k) \/ RecvResume(k) \/ RecvNothing(k) \/ RecvWake(k)
    \/ RecvUnwind(k)
    \/ \E cid \in CallIds :
         \/ \E offer \in Offers : RecvInvite(k, cid, offer)
         \/ RecvAck(k, cid)
         \/ \E method \in {"BYE", "CANCEL"} : RecvBye(k, cid, method)
    \/ ByeWake(k)

\* Call.write_audio and Call.read_audio, up to their call of the first audio
\* client's write or read: "no_client" when get_audio_client finds none
LocalAudio(op, o) ==
    /\ Quiet /\ frame[CallT].pc = "idle" /\ call_ops < MaxCallOps
    /\ call[o].state # "none"
    /\ IF Refuses(op, call[o].state)
       THEN Refused(op, o)
       ELSE /\ ev' = NotObserved(CallT, op,
                                 IF NextAudio(call, o, 1) = 0
                                 THEN "no_client" ELSE "client_called", o)
            /\ UNCHANGED <<calls, call, assigned_ports, frame, re_answer,
                           reapers, quietVars, recv_tasks, recv_lock, sock,
                           status, status_log, internet, sleepers, running>>
    /\ UNCHANGED call_ops
    /\ UNCHANGED <<mediaVars, updater>>

CallNext ==
    \/ ApiStart \/ ApiStop \/ TimerFire
    \/ \E t \in Tasks : CallTaskStep(t)
    \/ \E k \in LoopIds : CallLoopStep(k)
    \/ \E t \in FrameTasks : GenMsWake(t) \/ HangupWake(t)
    \/ \E o \in Objs :
         \/ LocalAnswer(o) \/ ReAnswerFire(o) \/ LocalDecline(o)
         \/ LocalHangup(o)
         \/ \E op \in {"write_audio", "read_audio"} : LocalAudio(op, o)
    \/ \E cid \in CallIds : ReapFire(cid)

CallSpec == CallInit /\ [][CallNext]_vars

\* ---------------------------------------------- the packet manager alone
\* one RtpPacketManager written by its RtpClient's receiver and read by a
\* caller
PmInit == Constructed /\ server = "ok"

PmNext ==
    \/ \E off \in Offsets : \E data \in Payloads : PmWrite(off, data)
    \/ \E n \in ReadLengths : PmRead(n)
    \/ \E n \in ReadLengths : \E blocking \in BOOLEAN : ClientRead(n, blocking)
    \/ \E b \in BOOLEAN : ClientSetStarted(b)

PmSpec == PmInit /\ [][PmNext]_vars

\* ------------------------------------------- the updater's coordinators
\* the refreshes of the updater and the safe_start of each coordinator it
\* creates, the server answering each handshake or not
RefreshNext ==
    \/ \E response \in {0} \cup Settings : PrepareSipSettings(response)
    \/ \E v \in 1..MaxVoips :
         \/ VoipSafeStart(v)
         \/ \E answered \in BOOLEAN : VoipStopWake(v, answered)
         \/ \E answered \in BOOLEAN : VoipStart(v, answered)

RefreshSpec == SipInit /\ [][RefreshNext]_vars

\* ------------------------------------------------- one outbound RTP stream
RtpInit == Constructed /\ server = "ok"

RtpNext == RtpStart \/ RtpTransmit \/ RtpSendFails

RtpSpec == RtpInit /\ [][RtpNext]_vars

\* ------------------------------------- one start() followed to any depth
\* the coordinator's start() alone on the loop, its handshake passes followed
\* as far as the interpreter lets the recursion go
RetryInit == Constructed /\ server = "errors"

RetryNext ==
    \/ ApiStart
    \/ SipStart(ApiT) \/ RegEnter(ApiT) \/ RegFinish(ApiT) \/ RegRetry(ApiT)
    \/ StartReturn(ApiT)

RetrySpec == RetryInit /\ [][RetryNext]_vars


\* ------------------------------------------------------------------ claims
LiveRecv == {"ready", "top", "reading", "locked", "handling", "waiting"}

\* the API's start() has just returned True after a single handshake pass in
\* which REGISTER #1 was answered 401 and REGISTER #2 200 OK
StartedBy401Then200 ==
    /\ ev.t = ApiT /\ ev.kind = "start_ok"
    /\ ev.script = <<401, Timeout, 200>> /\ ev.attempts = 1

\* C3: when the server answers REGISTER #1 with 401 and REGISTER #2 with
\* 200 OK to the start of an inactive coordinator, start has sent exactly two
\* REGISTER datagrams, the status went registering -> registered (from a
\* fresh coordinator the history is inactive, registering, registered), the
\* re-register timer is armed for 3590 s and the receive and ping tasks
\* exist and run.
C3_StartHandshake ==
    StartedBy401Then200 /\ ev.from = "inactive" =>
        /\ ev.sent = 2
        /\ status = "registered"
        /\ Len(status_log) >= 2
        /\ status_log[Len(status_log)] = "registered"
        /\ status_log[Len(status_log) - 1] = "registering"
        /\ (ops = 1 =>
               status_log = <<"inactive", "registering", "registered">>)
        /\ register_loop = Armed(3590)
        /\ recv_loop # NoTask /\ recv_tasks[recv_loop] \in LiveRecv
        /\ ping_loop # NoTask /\ ping_tasks[ping_loop] = "alive"

C3_Witness ==
    StartedBy401Then200 /\ ev.from = "inactive" /\ ops = 1

\* somebody will make another registration attempt without being asked to
RetryScheduled ==
    \/ register_loop = Armed(SIP_RETRY_SLEEP)
    \/ \E t \in Tasks : task[t].pc \in {"retry_sleep", "reg_sleep"}

\* C4: after a registration attempt made by start fails with a timeout or
\* an invalid-account error, the endpoint is stopped, the status is failed
\* and a new attempt is scheduled 5 s later.
C4_FailedStartRetries ==
    (ev.kind = "start_failed" /\ ev.out \in {"timeout", "account"}) =>
        /\ ~sip_started
        /\ status = "failed"
        /\ RetryScheduled

\* the part of C4 the code does keep: endpoint stopped, status failed
C4_FailedStartStops ==
    (ev.kind = "start_failed" /\ ev.out \in {"timeout", "account"}) =>
        ~sip_started /\ status = "failed"

C4_Witness ==
    /\ ev.kind = "start_failed" /\ ev.out \in {"timeout", "account"}
    /\ ~RetryScheduled

\* C5: a timer-driven re-registration that ended without registering left
\* the status failed and a new attempt armed 5 s later.
C5_ReRegisterRearms ==
    (ev.t = TimerT /\ ev.kind \in {"raised", "reregister_failed"}) =>
        status = "failed" /\ register_loop = Armed(SIP_RETRY_SLEEP)

\* the errors _safe_register catches do re-arm
C5_CaughtErrorRearms ==
    (ev.t = TimerT /\ ev.kind = "reregister_failed") =>
        status = "failed" /\ register_loop = Armed(SIP_RETRY_SLEEP)

C5_Witness ==
    /\ ev.t = TimerT /\ ev.kind = "raised" /\ ev.out = "oserror"
    /\ status = "registering" /\ register_loop.st # "armed" /\ orphans = 0

\* the tasks that are inside a locked send/recv sequence or inside the
\* handling of a received datagram
InSequence ==
    {t \in Tasks : task[t].pc \in {"in_register", "in_deregister"}}
        \cup {k \in LoopIds : recv_tasks[k] = "handling"}

\* C6: while one task is between acquiring the receive lock and finishing
\* its send/recv sequence or its handling of a datagram, no other task is
\* inside such a sequence.
C6_Serialized == Cardinality(InSequence) <= 1

C6_Witness ==
    /\ task[TimerT].pc = "in_register" /\ task[TimerT].attempts = 2
    /\ \E k \in LoopIds : recv_tasks[k] = "handling" /\ recv_loop = k


\* start() is inside its retry loop and every response it has read so far
\* was a server error or carried no status
OnlyServerErrors(t) ==
    /\ task[t].op = "start" /\ task[t].only5xx /\ task[t].attempts >= 1
    /\ task[t].pc \in {"reg_sleep", "reg_enter", "in_register"}

\* C10: while every response to REGISTER is a server error or carries no
\* status, start keeps repeating the handshake after a 5 s pause: it is
\* never reported failed and it never raises, however many passes it takes.
C10_RetriesWithoutBound ==
    /\ OnlyServerErrors(ApiT) => status = "registering"
    /\ ~(ev.t = ApiT /\ ev.only5xx /\ ev.attempts >= 1
            /\ ev.kind \in {"raised", "start_failed"})

\* up to the recursion limit it does keep retrying
C10_RetriesUpToLimit ==
    /\ OnlyServerErrors(ApiT) => status = "registering"
    /\ (ev.t = ApiT /\ ev.only5xx /\ ev.attempts >= 1
            /\ ev.kind \in {"raised", "start_failed"})
        => ev.attempts >= RecursionLimit

C10_Witness ==
    /\ ev.t = ApiT /\ ev.kind = "raised" /\ ev.out = "recursion"
    /\ ev.only5xx /\ ev.attempts = RecursionLimit /\ ev.sent = RecursionLimit
    /\ sip_started /\ status = "registering"

\* ------------------------------------------------- handshake error claims
\* the API's start() has just ended, one way or another, after one pass
StartEnded ==
    /\ ev.t = ApiT /\ ev.kind \in {"start_ok", "start_failed", "raised"}
    /\ ev.attempts = 1

\* the pass read 100 Trying first; the 401 that follows was either there
\* when the code read again, and REGISTER #2 was answered 200 OK, or it had
\* not arrived yet
TryingThen401Then200 ==
    /\ StartEnded /\ ev.script[1] = 100
    /\ \/ ev.script[2] = 401 /\ ev.script[3] = 200
       \/ ev.script[2] = NoDatagram

\* C11: a handshake in which the server sends 100 Trying before the 401
\* goes on, whenever the 401 arrives, to REGISTER #2 and on 200 OK ends
\* registered: two REGISTERs sent, no error raised, status not failed.
C11_TryingProceeds ==
    TryingThen401Then200 =>
        ev.kind = "start_ok" /\ ev.sent = 2 /\ status = "registered"

\* the same when the 401 is already there when the code reads again
C11_TryingThenPrompt401 ==
    (StartEnded /\ ev.script = <<100, 401, 200>>) =>
        ev.kind = "start_ok" /\ ev.sent = 2 /\ status = "registered"

\* the 401 had not arrived yet: start() raised BlockingIOError, the status
\* stays registering and the endpoint believes it is started
C11_Witness ==
    /\ TryingThen401Then200 /\ ev.script = <<100, NoDatagram, Timeout>>
    /\ ev.kind = "raised" /\ ev.out = "oserror" /\ ev.sent = 1
    /\ status = "registering" /\ sip_started

\* no receive task and no ping task is left running
NoLoops ==
    /\ \A k \in LoopIds : recv_tasks[k] \notin LiveRecv
    /\ \A k \in LoopIds : ping_tasks[k] # "alive"

\* no re-register timer is pending
NoTimers == register_loop.st # "armed" /\ orphans = 0

\* start() has failed because nothing answered REGISTER #1 within SIP_TIMEOUT
TimedOutOnFirst ==
    /\ StartEnded /\ ev.kind = "start_failed" /\ ev.out = "timeout"
    /\ ev.script[1] = Timeout

\* C12: when no response to REGISTER #1 arrives in time, start fails with
\* the timeout error, the status is failed, the receive lock is free and the
\* endpoint is not started: no receive or ping task, no re-register timer.
C12_TimeoutStops ==
    TimedOutOnFirst =>
        /\ ev.error = "IntercomSipTimeoutError"
        /\ ev.sent = 1
        /\ status = "failed"
        /\ ~recv_lock.locked
        /\ ~sip_started
        /\ NoLoops /\ NoTimers

\* the same for the start of an inactive coordinator
C12_TimeoutStopsInactive ==
    TimedOutOnFirst /\ ev.from = "inactive" =>
        /\ ev.error = "IntercomSipTimeoutError"
        /\ ev.sent = 1
        /\ status = "failed"
        /\ ~recv_lock.locked
        /\ ~sip_started
        /\ NoLoops /\ NoTimers

\* start() was accepted while the timer's re-registration slept in stop()
\* with _started cleared; it timed out and the receive and ping tasks of the
\* registration that is being stopped are still there
C12_Witness ==
    /\ TimedOutOnFirst /\ ev.from = "deregistering"
    /\ task[TimerT].pc = "stop_sleep"
    /\ recv_loop # NoTask /\ recv_tasks[recv_loop] \in LiveRecv
    /\ ping_loop # NoTask /\ ping_tasks[ping_loop] = "alive"

\* the last datagram a pass read was 400 Bad Request
Got400(s) ==
    \/ s[1] = 400
    \/ s[1] = 100 /\ s[2] = 400
    \/ s[3] = 400

\* C13: when the server answers a REGISTER of the handshake with 400, start
\* fails with the invalid-state error, the status is failed and no timer,
\* receive task or ping task is left.
C13_BadRequestStops ==
    (StartEnded /\ Got400(ev.script)) =>
        /\ ev.kind = "start_failed" /\ ev.out = "state"
        /\ ev.error = "IntercomInvalidStateError"
        /\ status = "failed"
        /\ ~sip_started
        /\ NoLoops /\ NoTimers

\* the start of an inactive coordinator: _register raises the invalid-state
\* error and everything is stopped, whatever class sip.start re-raises
C13_BadRequestStopsInactive ==
    (StartEnded /\ Got400(ev.script) /\ ev.from = "inactive") =>
        /\ ev.kind = "start_failed" /\ ev.out = "state"
        /\ status = "failed"
        /\ ~sip_started
        /\ NoLoops /\ NoTimers

\* 400 to the first REGISTER of a fresh coordinator: the error that leaves
\* sip.start is a plain IntercomError made from the message of the
\* invalid-state error
C13_Witness ==
    /\ StartEnded /\ ev.script[1] = 400 /\ ev.sent = 1
    /\ ev.kind = "start_failed" /\ ev.out = "state"
    /\ ev.error = "IntercomError" /\ ev.from = "inactive" /\ ops = 1
    /\ status = "failed"

\* the registration an endpoint has: flag, sockets, lock, timer and loops
registration == <<sip_started, sock, recv_lock, register_loop, orphans,
                  recv_tasks, recv_loop, ping_tasks, ping_loop>>

\* C14: start on an endpoint that is already started is rejected with the
\* already-started error before anything is sent, and the registration
\* (started flag, timer, receive and ping tasks) is left as it was, also
\* when the coordinator's start() then returns.
C14_AlreadyStarted ==
    [][/\ \A t \in Tasks :
            (task[t].pc = "sip_start" /\ sip_started) =>
               /\ task'[t].pc = "start_ret" /\ task'[t].err = "already"
               /\ task'[t].sent = 0
               /\ UNCHANGED registration
       /\ (task[ApiT].pc = "start_ret" /\ task[ApiT].err = "already") =>
               /\ ev'.kind = "start_failed" /\ ev'.sent = 0
               /\ UNCHANGED registration]_vars

\* start() on a registered coordinator has been rejected: the timer is
\* still armed and the loops are alive
C14_Witness ==
    /\ ev.t = ApiT /\ ev.kind = "start_failed" /\ ev.out = "already"
    /\ ev.sent = 0 /\ sip_started /\ register_loop = Armed(3590)
    /\ recv_loop # NoTask /\ recv_tasks[recv_loop] \in LiveRecv
    /\ ping_loop # NoTask /\ ping_tasks[ping_loop] = "alive"

\* sip.stop has run in task t: it returns or raises next
StopRan(t) == task[t].pc = "stop_ret"

StopTasks == {ApiT, TimerT}

\* the tasks recv_loop and ping_loop refer to have been cancelled
LoopsCancelled ==
    /\ recv_loop # NoTask => recv_tasks[recv_loop] \notin LiveRecv
    /\ ping_loop # NoTask => ping_tasks[ping_loop] # "alive"

\* C16: after sip.stop has run, with its deregistration succeeded or
\* failed, the receive and ping tasks are cancelled, the sockets are closed
\* unless force was given, the receive lock is free and the re-register
\* timer is cancelled unless safe was given.
C16_StopLeaves ==
    \A t \in StopTasks :
        StopRan(t) =>
            /\ LoopsCancelled
            /\ ~task[t].force => sock # "open"
            /\ ~recv_lock.locked
            /\ ~task[t].safe => register_loop.st # "armed"

\* the sockets are closed when the deregistration succeeded or was not needed
C16_SocketsClosedOnSuccess ==
    \A t \in StopTasks :
        StopRan(t) /\ ~task[t].force /\ task[t].err = "none" => sock # "open"

\* stop() of a registered endpoint whose deregistration timed out: the
\* sockets are still open and _started is still set
C16_Witness ==
    /\ StopRan(ApiT) /\ task[ApiT].op = "stop" /\ task[ApiT].err = "timeout"
    /\ task[ApiT].from = "registered" /\ ~task[ApiT].force
    /\ sock = "open" /\ sip_started
    /\ LoopsCancelled /\ ~recv_lock.locked /\ register_loop.st = "cancelled"

\* safe_start has returned False in the step just taken
SafeStartFalse ==
    /\ ev.t = ApiT /\ ev.op = "safe_start"
    /\ ev.kind \in {"start_failed", "safe_start_false"}

\* C17: safe_start(total_retry) repeats its stop-then-start while an
\* attempt does not end registered, up to total_retry more times: when it
\* returns False every one of its 1 + total_retry attempts has been made.
C17_RetriesUntilRegistered == SafeStartFalse => ev.retry = ev.total + 1

\* when it is sip.stop(True) that raises, the attempts are repeated
C17_StopFailureRetries ==
    (ev.t = ApiT /\ ev.kind = "safe_start_false") => ev.retry = ev.total + 1

\* safe_start returns True only from a start that ended registered
C17_TrueWhenRegistered ==
    [][(task[ApiT].op = "safe_start" /\ ev'.t = ApiT /\ ev'.kind = "start_ok")
          => status' = "registered"]_vars

\* safe_start(total_retry = MaxRetry) of a fresh coordinator whose REGISTER
\* is not answered: it has returned False after its first attempt and no
\* task sleeps towards another
C17_Witness ==
    /\ SafeStartFalse /\ ev.kind = "start_failed" /\ ev.out = "timeout"
    /\ ev.total = MaxRetry /\ ev.retry = 1 /\ ops = 1
    /\ status = "failed" /\ task[ApiT].pc = "idle" /\ sleepers = <<>>

\* ------------------------------------------------------------ call claims
\* the moves of Call.state the lifecycle allows; "none" is a Call object not
\* yet constructed
StateWalk ==
    {<<"none", "ringing">>, <<"ringing", "answered">>,
     <<"ringing", "ended">>, <<"answered", "ended">>}

\* C1: whatever SIP events arrive and whatever local operations are invoked,
\* a call's state changes only ringing -> answered, ringing -> ended or
\* answered -> ended; in particular an ended call never changes state again.
C1_StateWalk ==
    [][\A o \in Objs :
          call'[o].state # call[o].state =>
              <<call[o].state, call'[o].state>> \in StateWalk]_vars

\* a call that rang, was answered, and has just been hung up locally
C1_Witness ==
    /\ ev.kind = "hangup" /\ ev.out = "done"
    /\ call[ev.obj].state = "ended"

\* every client of call o is stopped
AllStopped(o) ==
    \A i \in DOMAIN call[o].clients :
        ~call[o].clients[i].started /\ ~call[o].clients[i].bound

\* C2: the handling of a BYE or CANCEL for a Call-ID of the call map ends,
\* whatever the other tasks do meanwhile, with the call ended, its clients
\* stopped, its entry removed and the observer dispatched for it.
C2_ByeEndsCall ==
    (ev.kind = "bye" /\ ev.out # "unknown") =>
        /\ ev.out = "observed"
        /\ call[ev.obj].state = "ended"
        /\ AllStopped(ev.obj)
        /\ calls[call[ev.obj].call_id] = NoCall

\* a BYE for a call with clients was handled to the end
C2_Witness ==
    /\ ev.kind = "bye" /\ ev.out = "observed"
    /\ call[ev.obj].clients # <<>>
    /\ call[ev.obj].state = "ended" /\ AllStopped(ev.obj)
    /\ calls[call[ev.obj].call_id] = NoCall

\* the clients between start() and stop(): RtpClient._started is True
LiveClients ==
    {x \in Objs \X (1..4) :
        /\ x[2] \in DOMAIN call[x[1]].clients
        /\ call[x[1]].clients[x[2]].started}

\* C7: no two live RtpClients, of one call or of two, have the same local
\* RTP port.
C7_UniquePorts ==
    \A x, y \in LiveClients :
        x # y => call[x[1]].clients[x[2]].port # call[y[1]].clients[y[2]].port

\* an answered offer of one audio and one video line: the audio client is
\* live on its own port
C7_Witness ==
    \E o \in Objs :
        /\ Len(call[o].clients) = 2
        /\ call[o].clients[1].started /\ call[o].clients[1].bound
        /\ call[o].clients[1].port # call[o].clients[2].port

\* ----------------------------------------------------------- media claims
\* C8: a write whose offset is below the base by less than ResetDistance
\* goes on to replay the history into the fresh buffer and to restore the
\* read cursor: it is not left waiting, with the buffer emptied and the
\* cursor at 0, for the buffer lock it holds itself.
C8_RebuildReplays == pmt.w = "replaying" => pm.lock # "writer"

\* a write below the base by less than ResetDistance has begun, with
\* history to replay and a read cursor to preserve
C8_Witness ==
    /\ pmt.w = "replaying" /\ pmt.saved > 0
    /\ Len(pm.history) >= 2

\* C9: each transmitted packet carries a sequence number one greater than
\* the previous packet's and a timestamp greater by the length of the
\* previous packet's encoded payload.
C9_SequenceAndTimestamp ==
    stream.count = 2 =>
        /\ Len(stream.last.header) = Len(stream.prev.header)
        /\ add_bytes(SequenceField(stream.last))
             = add_bytes(SequenceField(stream.prev)) + 1
        /\ TimestampField(stream.last)
             = Bytes4(add_bytes(TimestampField(stream.prev))
                      + stream.prev.length)

\* the same while _out_sequence fits the 16-bit field
C9_WithinSixteenBits ==
    (stream.count = 2 /\ stream.sequence <= 65536) =>
        /\ add_bytes(SequenceField(stream.last))
             = add_bytes(SequenceField(stream.prev)) + 1
        /\ TimestampField(stream.last)
             = Bytes4(add_bytes(TimestampField(stream.prev))
                      + stream.prev.length)

\* two packets have been transmitted, the second numbered one above the first
C9_Witness ==
    /\ stream.count = 2 /\ stream.sequence <= 65536
    /\ add_bytes(SequenceField(stream.last))
         = add_bytes(SequenceField(stream.prev)) + 1

\* ------------------------------------------------------ coordinator stop
\* every client of call o in cl is stopped and its socket closed
StoppedIn(cl, o) ==
    \A i \in DOMAIN cl[o].clients :
        ~cl[o].clients[i].started /\ ~cl[o].clients[i].bound

\* the calls IntercomVoip.stop still has to do with: those of the call map
\* and the one whose client it is stopping
StopInvolved ==
    {calls[c] : c \in {x \in CallIds : calls[x] # NoCall}}
        \cup (IF frame[ApiT].pc = "idle" THEN {} ELSE {frame[ApiT].cur})

\* the step that ends IntercomVoip.stop, by return or by exception
StopEnds ==
    /\ task[ApiT].op = "stop" /\ ev'.t = ApiT
    /\ ev'.kind \in {"stop_done", "raised"}

\* C15: the coordinator's stop goes from registered through deregistering
\* to inactive and, whatever calls the map holds, returns with every one of
\* them ended, its clients stopped, and the map empty.
C15_StopEndsCalls ==
    [][StopEnds =>
          /\ ev'.kind = "stop_done"
          /\ \A c \in CallIds : calls'[c] = NoCall
          /\ \A o \in StopInvolved :
                call'[o].state = "ended" /\ StoppedIn(call', o)]_vars

\* the calls part when stop returns
C15_ReturnEndsCalls ==
    [][(StopEnds /\ ev'.kind = "stop_done") =>
          /\ \A c \in CallIds : calls'[c] = NoCall
          /\ \A o \in StopInvolved :
                call'[o].state = "ended" /\ StoppedIn(call', o)]_vars

\* stop() has ended with the RuntimeError of its loop over the call map:
\* a clean_call timer removed the call while stop slept in the stop of
\* the call's client
C15_Witness ==
    /\ ev.t = ApiT /\ ev.op = "stop" /\ ev.kind = "raised"
    /\ ev.out = "runtimeerror" /\ ev.from = "registered"
    /\ status = "inactive" /\ \A c \in CallIds : calls[c] = NoCall

\* --------------------------------------------------- inbound requests
\* C18: for every inbound request the endpoint sends its responses before
\* the message reaches the coordinator's handler: INVITE 100, 180, handler;
\* CANCEL 200, 487, handler; BYE 200, handler; ACK the handler only.
C18_RepliesBeforeHandler ==
    /\ ev.method = "INVITE" => ev.replies = <<"100", "180", "callback">>
    /\ ev.method = "CANCEL" => ev.replies = <<"200", "487", "callback">>
    /\ ev.method = "BYE" => ev.replies = <<"200", "callback">>
    /\ ev.method = "ACK" => ev.replies = <<"callback">>

\* a CANCEL for a ringing call has been answered and handled: the call is
\* ended and the observer dispatched
C18_Witness ==
    /\ ev.method = "CANCEL" /\ ev.kind = "bye" /\ ev.out = "observed"
    /\ ev.replies = <<"200", "487", "callback">>
    /\ call[ev.obj].state = "ended" /\ calls[ev.cid] = NoCall

\* C19: an INVITE whose Call-ID is not in the call map creates exactly one
\* Call, ringing, stored under that Call-ID, arms one clean_call timer of
\* 1800 s for the Call-ID and dispatches the observer once for the call.
C19_InviteCreates ==
    [][\A cid \in CallIds :
         (ev'.method = "INVITE" /\ ev'.cid = cid /\ calls[cid] = NoCall) =>
            /\ calls'[cid] # NoCall
            /\ call[calls'[cid]].state = "none"
            /\ call'[calls'[cid]].state = "ringing"
            /\ call'[calls'[cid]].call_id = cid
            /\ \A x \in Objs \ {calls'[cid]} : call'[x] = call[x]
            /\ \A c \in CallIds \ {cid} :
                  calls'[c] = calls[c] /\ reapers'[c] = reapers[c]
            /\ reapers'[cid] = Append(reapers[cid], 1800)
            /\ ev'.kind = "invite" /\ ev'.out = "observed"
            /\ ev'.obj = calls'[cid]]_vars

\* the first INVITE of a registered coordinator has been handled
C19_Witness ==
    /\ ev.method = "INVITE" /\ ev.kind = "invite" /\ ev.out = "observed"
    /\ ~ev.known
    /\ calls[ev.cid] = ev.obj /\ call[ev.obj].state = "ringing"
    /\ reapers[ev.cid] = <<1800>>
    /\ status = "registered"

\* C20: an INVITE whose Call-ID is in the call map with the call ringing
\* changes nothing: no call is created, nothing is renegotiated, the
\* call's state and clients are unchanged and the observer is not
\* dispatched.
C20_DuplicateInviteIgnored ==
    [][\A cid \in CallIds :
         (/\ ev'.method = "INVITE" /\ ev'.cid = cid
          /\ calls[cid] # NoCall /\ call[calls[cid]].state = "ringing") =>
            /\ UNCHANGED <<calls, call, assigned_ports, reapers, re_answer>>
            /\ ev'.out # "observed"]_vars

\* the same without the observer
C20_DuplicateInviteChangesNothing ==
    [][\A cid \in CallIds :
         (/\ ev'.method = "INVITE" /\ ev'.cid = cid
          /\ calls[cid] # NoCall /\ call[calls[cid]].state = "ringing") =>
            UNCHANGED <<calls, call, assigned_ports, reapers, re_answer,
                        frame>>]_vars

\* a second INVITE for a call that still rings: the observer has been
\* dispatched again for the same call
C20_Witness ==
    /\ ev.method = "INVITE" /\ ev.kind = "invite" /\ ev.out = "observed"
    /\ ev.known
    /\ calls[ev.cid] = ev.obj /\ call[ev.obj].state = "ringing"
    /\ reapers[ev.cid] = <<1800>> /\ call_ops = 0
    /\ \E k \in LoopIds : recv_tasks[k] = "top" /\ frame[k].pc = "idle"

ReAnswerSends == ev'.t = ReT /\ ev'.kind = "answer" /\ ev'.out = "done"

\* C22: after answer() on a ringing call the 200 OK is sent again 2 s
\* later, and again while the call still rings; it is never sent again for
\* a call that has left ringing.
C22_ReAnswerOnlyWhileRinging ==
    [][ReAnswerSends =>
          /\ call'[ev'.obj].state = "ringing"
          /\ re_answer'[ev'.obj] > 0]_vars

\* every answer that was sent has armed the next _re_answer
C22_AnswerArmsReAnswer ==
    [][(ev'.kind = "answer" /\ ev'.out = "done" /\ ev'.t \in {CallT, ReT})
          => re_answer'[ev'.obj] > 0]_vars

\* a _re_answer that finds its call no longer ringing sends nothing and
\* arms nothing
C22_ExpiryChecksRinging ==
    [][\A o \in Objs :
         (/\ re_answer[o] > 0 /\ call[o].state # "ringing"
          /\ ev'.t = ReT /\ ev'.obj = o /\ frame[ReT].pc = "idle") =>
            /\ ev'.out = "skipped" /\ re_answer'[o] = re_answer[o] - 1
            /\ UNCHANGED <<call, calls, status>>]_vars

\* the re-answer task has sent the 200 OK for a call that an ACK answered
\* while the task slept in the stop of the call's client
C22_Witness ==
    /\ ev.t = ReT /\ ev.kind = "answer" /\ ev.out = "done"
    /\ call[ev.obj].state = "answered" /\ re_answer[ev.obj] > 0
    /\ calls[call[ev.obj].call_id] = ev.obj


\* the caller's task enters the operation op on call o in this step
Invokes(op, o) ==
    /\ frame[CallT].pc = "idle"
    /\ \/ ev'.t = CallT /\ ev'.kind = op /\ ev'.obj = o
       \/ frame'[CallT].op = op /\ frame'[CallT].obj = o

\* the step raised IntercomInvalidStateError and did nothing else
RaisedInvalidState ==
    /\ ev'.out = "invalid_state" /\ ev'.sent = 0
    /\ frame'[CallT].pc = "idle"
    /\ UNCHANGED <<call, calls, assigned_ports, re_answer, reapers, status,
                   status_log, internet, sock, sleepers>>

\* C23: answer or decline on a call that is not ringing, and hangup or
\* write_audio on a call that is not answered, raise InvalidState, send
\* nothing and leave the call's state, its RTP clients and the call map as
\* they were
C23_WrongStateRefused ==
    [][\A o \in Objs :
         /\ \A op \in {"answer", "decline"} :
              (Invokes(op, o) /\ call[o].state # "ringing")
                 => RaisedInvalidState
         /\ \A op \in {"hangup", "write_audio"} :
              (Invokes(op, o) /\ call[o].state # "answered")
                 => RaisedInvalidState]_vars

\* a hangup refused on a ringing call whose client runs and which stays in
\* the map
C23_Witness ==
    /\ ev.t = CallT /\ ev.kind = "hangup" /\ ev.out = "invalid_state"
    /\ call[ev.obj].state = "ringing"
    /\ call[ev.obj].clients # <<>>
    /\ calls[call[ev.obj].call_id] = ev.obj

\* C24: write_audio and read_audio on a call that is not answered are
\* rejected with InvalidState and reach no RTP client
C24_AudioOnlyWhileAnswered ==
    [][\A o \in Objs : \A op \in {"write_audio", "read_audio"} :
         (Invokes(op, o) /\ call[o].state # "answered")
            => ev'.out = "invalid_state"]_vars

\* write_audio alone: rejected on every call that is not answered
C24_WriteOnlyWhileAnswered ==
    [][\A o \in Objs :
         (Invokes("write_audio", o) /\ call[o].state # "answered")
            => ev'.out = "invalid_state"]_vars

\* read_audio reached the audio client of a call that still rings
C24_Witness ==
    /\ ev.t = CallT /\ ev.kind = "read_audio" /\ ev.out = "client_called"
    /\ call[ev.obj].state = "ringing"
    /\ NextAudio(call, ev.obj, 1) # 0

\* the caller's hangup sends its BYE in this step
ByeSent == ev'.t = CallT /\ ev'.kind = "hangup" /\ ev'.sent = 1

\* the caller's hangup ended in the state: returned, or left clean_call with
\* the KeyError of a concurrent removal
HangupOver ==
    ev.t = CallT /\ ev.kind = "hangup" /\ ev.out \in {"done", "keyerror"}

\* C25: hangup on an answered call stops the call's RTP clients one after
\* the other and sends nothing meanwhile; with the last client closed it
\* sends its only BYE and sets the state to ended; when it is over the call
\* is ended and out of the map
C25_HangupStopsByeEndsRemoves ==
    [][/\ \A o \in Objs :
            (Invokes("hangup", o) /\ call[o].state = "answered"
                /\ call[o].clients # <<>>) =>
               /\ ~call'[o].clients[1].started
               /\ frame'[CallT].pc = "hang_stop" /\ frame'[CallT].i = 1
               /\ ev'.sent = 0
               /\ call'[o].state = "answered" /\ calls' = calls
       /\ (frame[CallT].pc = "hang_stop" /\ frame'[CallT] # frame[CallT]) =>
            LET o == frame[CallT].obj
                i == frame[CallT].i IN
            /\ ~call'[o].clients[i].bound
            /\ IF i < Len(call[o].clients)
               THEN /\ ~call'[o].clients[i + 1].started
                    /\ frame'[CallT].pc = "hang_stop"
                    /\ frame'[CallT].i = i + 1
                    /\ ev'.sent = 0 /\ call'[o].state = call[o].state
               ELSE ByeSent /\ ev'.obj = o
       /\ ByeSent =>
            /\ frame[CallT].pc \in {"idle", "hang_stop"}
            /\ frame[CallT].pc = "idle" => call[ev'.obj].clients = <<>>
            /\ call'[ev'.obj].state = "ended"
       /\ (frame[CallT].pc = "hang_clean" /\ ev'.t = CallT) => ev'.sent = 0
       /\ HangupOver' =>
            /\ call'[ev'.obj].state = "ended"
            /\ calls'[call'[ev'.obj].call_id] # ev'.obj]_vars

\* when hangup is over, every client of the call is stopped and closed
C25_ClientsStayStopped == HangupOver => StoppedIn(call, ev.obj)

\* a hangup of an answered call with a client has returned: the call is
\* ended, out of the map, its client stopped and closed
C25_Witness ==
    /\ HangupOver /\ ev.out = "done"
    /\ call[ev.obj].clients # <<>> /\ StoppedIn(call, ev.obj)
    /\ call[ev.obj].state = "ended"
    /\ calls[call[ev.obj].call_id] = NoCall
    /\ frame[CallT].pc = "idle"

\* call o moves into ringing, answered or ended in this step
Moves(o) ==
    /\ call'[o].state # call[o].state
    /\ call'[o].state \in {"ringing", "answered", "ended"}

\* the step dispatches the observer for o, or leaves a recv task inside the
\* handler that dispatches it when its clients are stopped
ObserverDue(o) ==
    \/ ev'.out = "observed" /\ ev'.obj = o
    \/ \E k \in LoopIds : frame'[k].op = "bye" /\ frame'[k].obj = o

\* C26: every move of a call into ringing, answered or ended, by a SIP event
\* or by decline, hangup or the coordinator's stop, has the observer invoked
\* for that call
C26_EveryMoveObserved ==
    [][\A o \in Objs : Moves(o) => ObserverDue(o)]_vars

\* the moves made by the SIP events INVITE, ACK, BYE and CANCEL do
C26_SipMovesObserved ==
    [][\A o \in Objs :
         (Moves(o) /\ ev'.method \in Methods) => ObserverDue(o)]_vars

\* decline has ended a ringing call and returned; no observer was invoked
C26_Witness ==
    /\ ev.t = CallT /\ ev.kind = "decline" /\ ev.out = "done"
    /\ call[ev.obj].state = "ended"
    /\ \A t \in FrameTasks : frame[t].pc = "idle"

\* a recv task other than k dispatches the observer for Call-ID cid
Overtakes(k, cid) ==
    /\ ev'.out = "observed" /\ ev'.cid = cid /\ ev'.method \in Methods
    /\ ev'.t # k

\* C27: the observer invocations for one Call-ID follow the order in which
\* its SIP events arrived: while the handler of an earlier event of the
\* Call-ID has not yet dispatched the observer, no later event's does
C27_ObserverInWireOrder ==
    [][\A k \in LoopIds : \A cid \in CallIds :
         (frame[k].pc # "idle" /\ frame[k].cid = cid
             /\ frame[k].op \in {"invite", "bye"})
            => ~Overtakes(k, cid)]_vars

\* the observer was invoked for a later event of a Call-ID while the handler
\* of its earlier BYE, not cancelled, still waits for the clients to stop
C27_Witness ==
    /\ ev.out = "observed" /\ ev.method \in Methods
    /\ \E k \in LoopIds :
         /\ k # ev.t /\ frame[k].op = "bye" /\ frame[k].cid = ev.cid
         /\ recv_tasks[k] = "handling"

\* the offer's audio port count differs from connections x audio lines
AudioMismatch(o) ==
    PortCount(o, "audio") # Connections(o) * Len(MediaLines(o, "audio"))

\* the step is the INVITE that creates a call from offer ev'.offer
InviteCreates == ev'.kind = "invite" /\ ev'.method = "INVITE" /\ ~ev'.known

\* C30: an INVITE whose offer declares audio ports different from
\* connections x audio lines creates a call without RTP clients and assigns
\* no RTP port
C30_MismatchUnplumbed ==
    [][(InviteCreates /\ AudioMismatch(ev'.offer)) =>
          /\ call'[ev'.obj].clients = <<>>
          /\ assigned_ports' = assigned_ports]_vars

\* the same for the offers that declare at least one audio port
C30_NonZeroMismatchUnplumbed ==
    [][(InviteCreates /\ AudioMismatch(ev'.offer)
           /\ PortCount(ev'.offer, "audio") # 0) =>
          /\ call'[ev'.obj].clients = <<>>
          /\ assigned_ports' = assigned_ports]_vars

\* an INVITE with one audio line of zero ports and one connection has
\* created a call with an RTP client on an assigned port
C30_Witness ==
    /\ ev.kind = "invite" /\ ev.method = "INVITE" /\ ~ev.known
    /\ PortCount(ev.offer, "audio") = 0
    /\ Len(MediaLines(ev.offer, "audio")) = 1 /\ Connections(ev.offer) = 1
    /\ Len(call[ev.obj].clients) = 1
    /\ call[ev.obj].clients[1].port \in assigned_ports

\* --------------------------------------------------- packet manager reads
\* the step is a read(pmt'.want) of the packet manager
ReadStep ==
    /\ pmt'.w = pmt.w /\ pm'.buffer = pm.buffer /\ pm'.history = pm.history
    /\ pmt' # pmt \/ pm'.pos # pm.pos

\* the packet is the buffer's bytes from the cursor on, then 0x80
PaddedFrom(packet, n) ==
    /\ Len(packet) = n
    /\ \A i \in 1..n :
          packet[i] = IF pm.pos + i <= Len(pm.buffer)
                      THEN pm.buffer[pm.pos + i] ELSE 128

\* C28: read(n) returns exactly n bytes, the buffer's and then 0x80, after
\* any writes, rebuilds and reads
C28_ReadReturnsPadded ==
    [][ReadStep => /\ pmt'.r = "idle"
                   /\ PaddedFrom(pmt'.packet, pmt'.want)]_vars

\* every read that returns, returns exactly n bytes padded with 0x80
C28_ReturnedReadPadded ==
    [][(ReadStep /\ pmt'.r = "idle")
          => PaddedFrom(pmt'.packet, pmt'.want)]_vars

\* a read(2) waits on _rebuilding while the write that set it is blocked on
\* its own lock
C28_Witness ==
    /\ pmt.r = "spinning" /\ pmt.want = 2
    /\ pm.rebuilding /\ pmt.w = "replaying" /\ pm.lock = "writer"

\* ------------------------------------------------------- client reads
\* C29: a read on a client whose inbound stream has stalled returns its
\* 0x80 bytes after at most one sleep of 10 ms: it never sleeps a second time
C29_StalledReadReturns == pmt.spins <= 1

\* a read sleeps only while the client is started and what it read is
\* nothing but 0x80: a read on a stopped client returns at once
C29_SleepsOnlyStartedSilent ==
    [][(pmt'.c = "sleeping" /\ pmt'.spins # pmt.spins)
          => pmt.started /\ pmt'.packet = Silence(pmt'.want)]_vars

\* a blocking read(2) on a started client with nothing left in the buffer
\* sleeps for the third time
C29_Witness ==
    /\ pmt.c = "sleeping" /\ pmt.spins = MaxSpins /\ pmt.want = 2
    /\ pmt.started /\ pmt.packet = Silence(2)
    /\ ~pm.rebuilding /\ pm.pos >= Len(pm.buffer)

\* ----------------------------------------------------- receive errors
\* C31: a datagram that fails to parse never ends the receive loop: the
\* task that read it is still alive after the step, inside its lock, and
\* goes on to read the next datagram
C31_GarbledKeepsLoop ==
    [][ev'.kind = "garbled" =>
          /\ ev'.out = "swallowed"
          /\ recv_tasks'[ev'.t] = "handling"]_vars

\* the same for the datagrams whose failure is an IntercomSipParseError
C31_ParseErrorKeepsLoop ==
    [][(ev'.kind = "garbled" /\ ev'.error = "IntercomSipParseError") =>
          /\ ev'.out = "swallowed"
          /\ recv_tasks'[ev'.t] = "handling"
          /\ recv_lock' = recv_lock /\ sip_started' = sip_started]_vars

\* a header line without ": " has ended the only receive task of a
\* registered endpoint, which stays started
C31_Witness ==
    /\ ev.kind = "garbled" /\ ev.error = "IndexError"
    /\ ev.out = "recv_died" /\ recv_tasks[ev.t] = "none" /\ recv_loop = ev.t
    /\ \A k \in LoopIds : recv_tasks[k] = "none"
    /\ sip_started /\ status = "registered" /\ sock = "open"

\* ----------------------------------------------------- keepalive sends
\* a round of the keepalive loop whose send had the given outcome
PingSend(out) == ev'.kind = "ping" /\ ev'.out = out

\* C32: a send failure in the keepalive loop flips _internet_connect and does
\* not stop the endpoint, and neither does the recovery of sending: after
\* either, the receive and ping tasks are as before and no sip.stop has been
\* set going
C32_PingNeverStopsEndpoint ==
    [][(PingSend("failed") \/ PingSend("recovered")) =>
          /\ internet' = PingSend("recovered")
          /\ recv_tasks' = recv_tasks /\ ping_tasks' = ping_tasks
          /\ sip_started' = sip_started
          /\ \A t \in Tasks : task'[t].pc = "sip_stop" => task[t].pc = "sip_stop"]_vars

\* the failure alone: flag cleared, status failed, nothing stopped
C32_FailureKeepsEndpoint ==
    [][PingSend("failed") =>
          /\ ~internet' /\ status' = "failed"
          /\ recv_tasks' = recv_tasks /\ ping_tasks' = ping_tasks
          /\ sip_started' = sip_started /\ task' = task
          /\ sock' = sock]_vars

\* the first keepalive that is sent again has set safe_start going, whose
\* sip.stop(True) will cancel the tasks that are alive and deregister
C32_Witness ==
    /\ ev.kind = "ping" /\ ev.out = "recovered"
    /\ internet /\ status = "inactive" /\ sip_started /\ sock = "open"
    /\ task[ApiT].pc = "sip_stop" /\ task[ApiT].op = "safe_start"
    /\ task[ApiT].force
    /\ ping_tasks[ev.t] = "alive"
    /\ \E k \in LoopIds : recv_tasks[k] # "none"


\* -------------------------------------------- the packet manager, fairly
\* the event loop keeps running whatever is ready: a step of the packet
\* manager's callers that can be taken is eventually taken
PmFairSpec == PmSpec /\ WF_vars(PmNext)

\* C33: every write on an RtpPacketManager eventually returns, and the
\* rebuilding flag is always eventually cleared, so that no read is
\* suspended for ever
C33_WritesAndRebuildsEnd ==
    /\ (pmt.w # "idle") ~> (pmt.w = "idle")
    /\ pm.rebuilding ~> ~pm.rebuilding
    /\ (pmt.r = "spinning") ~> (pmt.r = "idle")

\* a write is replaying the history under the lock it holds, the flag is
\* set, and a read that came since is in its 0.01 s loop
C33_Witness ==
    /\ pmt.w = "replaying" /\ pm.lock = "writer" /\ pm.rebuilding
    /\ pmt.r = "spinning" /\ pm.history # <<>>

\* ------------------------------------------------- after a call's removal
\* call object o was created and is no longer in IntercomVoip.calls
Removed(o) == call[o].state # "none" /\ \A c \in CallIds : calls[c] # o

\* the step starts a client of call o that was not started
StartsClient(o) ==
    \E i \in DOMAIN call[o].clients \cap DOMAIN call'[o].clients :
        call'[o].clients[i].started /\ ~call[o].clients[i].started

\* the step sends the 200 OK of Call.answer for call o
SendsAnswer(o) ==
    ev'.obj = o /\ ev'.kind = "answer" /\ ev'.out = "done" /\ ev'.sent = 1

\* C34: once a call has been removed from the call map, none of its RTP
\* clients is started again and no further 200 OK is sent for it
C34_RemovedCallSilent ==
    [][\A o \in Objs : Removed(o) => ~StartsClient(o) /\ ~SendsAnswer(o)]_vars

\* a removed call whose answer has just been sent, its client started
C34_Witness ==
    \E o \in Objs :
        /\ Removed(o)
        /\ ev.obj = o /\ ev.kind = "answer" /\ ev.out = "done" /\ ev.sent = 1
        /\ \E i \in DOMAIN call[o].clients : call[o].clients[i].started

\* ------------------------------------------------------ answered calls
\* answer() has got past its state check for call o: of the local
\* operations only answer goes through on a ringing call and leaves it
\* ringing
AnswerInvoked(o) == call_ops > 0 \/ re_answer[o] > 0

\* C35: a call becomes answered only if answer() was invoked on it before,
\* so that its 200 OK has been sent and its audio client started
C35_AnsweredOnlyAfterAnswer ==
    [][\A o \in Objs :
         (call[o].state = "ringing" /\ call'[o].state = "answered") =>
            /\ AnswerInvoked(o)
            /\ \A i \in DOMAIN call[o].clients :
                   call[o].clients[i].audio => call[o].clients[i].started]_vars

\* an ACK has answered a call with an audio line on which answer() was
\* never invoked: no 200 OK was sent, the client was never started
C35_Witness ==
    \E o \in Objs :
        /\ call[o].state = "answered" /\ calls[call[o].call_id] = o
        /\ ev.method = "ACK" /\ ev.obj = o
        /\ call_ops = 0 /\ re_answer[o] = 0
        /\ \A t \in FrameTasks : frame[t].pc = "idle"
        /\ \E i \in DOMAIN call[o].clients :
               call[o].clients[i].audio /\ ~call[o].clients[i].started

\* ------------------------------------------------- after a call has ended
\* the step completes an operation that ends call o: a BYE or CANCEL
\* handled, a local decline or a local hangup returned
EndsCall(o) ==
    /\ ev'.obj = o
    /\ \/ ev'.kind = "bye" /\ ev'.out = "observed"
       \/ ev'.kind \in {"decline", "hangup"} /\ ev'.out = "done"

\* call o is in the call map
InMap(cl, o) == \E c \in CallIds : cl[c] = o

\* C36: after a call-ending operation has completed the ended call is no
\* longer in the call map (clean_call, which also releases its session id,
\* has run for it) and its RTP clients are stopped
C36_EndedCallCleaned ==
    [][\A o \in Objs : EndsCall(o) =>
          /\ call'[o].state = "ended"
          /\ ~InMap(calls', o)
          /\ \A i \in DOMAIN call'[o].clients :
                 ~call'[o].clients[i].started]_vars

\* the map alone, for the operations that call clean_call
C36_ByeAndHangupRemove ==
    [][\A o \in Objs :
         (EndsCall(o) /\ ev'.kind # "decline") =>
            call'[o].state = "ended" /\ ~InMap(calls', o)]_vars

\* decline() has returned on a call that was answered locally before: the
\* call is ended, still in the map, its audio client still started
C36_Witness ==
    \E o \in Objs :
        /\ ev.kind = "decline" /\ ev.out = "done" /\ ev.obj = o
        /\ call[o].state = "ended" /\ InMap(calls, o)
        /\ \E i \in DOMAIN call[o].clients : call[o].clients[i].started

\* ------------------------------------------------- one timer, one of each
\* the re-register timers that will fire: the one register_loop refers to
\* and those it no longer refers to
ArmedTimers == (IF register_loop.st = "armed" THEN 1 ELSE 0) + orphans

LiveRecvTasks == {k \in LoopIds : recv_tasks[k] \in LiveRecv}

LivePingTasks == {k \in LoopIds : ping_tasks[k] = "alive"}

\* C37: at any time the endpoint has at most one armed re-register timer, at
\* most one live receive task and at most one live ping task
C37_AtMostOneOfEach ==
    /\ ArmedTimers <= 1
    /\ Cardinality(LiveRecvTasks) <= 1
    /\ Cardinality(LivePingTasks) <= 1

\* two receive tasks and two ping tasks are alive on a started endpoint
C37_Witness ==
    /\ Cardinality(LiveRecvTasks) = 2 /\ Cardinality(LivePingTasks) = 2
    /\ sip_started /\ sock = "open"
    /\ \A t \in Tasks : task[t].pc = "idle"

\* ------------------------------------- start, stop and start again, alone
\* the coordinator operations followed when start() and stop() alternate
MaxRestartOps == 3

\* the coordinator's start() and stop() one after the other with the receive
\* and ping tasks they create, no timer expiring and every keepalive sent:
\* no task ever waits for the receive lock
RestartNext ==
    \/ ApiStartWithin(MaxRestartOps) \/ ApiStopWithin(MaxRestartOps)
    \/ SipStopBegin(ApiT) \/ SipStopWake(ApiT)
    \/ DeregEnter(ApiT) \/ DeregFinish(ApiT) \/ DeregRetry(ApiT)
    \/ StopReturn(ApiT)
    \/ SipStart(ApiT) \/ RegEnter(ApiT) \/ RegFinish(ApiT)
    \/ RegRetry(ApiT) \/ StartReturn(ApiT)
    \/ \E k \in LoopIds :
         \/ RecvLoopTop(k) \/ RecvNothing(k)
         \/ RecvWake(k) \/ RecvUnwind(k)
         \/ PingStep(k) /\ ev'.out \in {"left", "sent"}

RestartSpec == SipInit /\ [][RestartNext]_vars

\* a start() that was called on a stopped coordinator (status inactive,
\* operations before it) has ended
StartAfterStopEnded ==
    /\ ev.t = ApiT /\ ev.op = "start" /\ ev.from = "inactive" /\ ops >= 2
    /\ ev.kind \in {"start_ok", "start_failed", "raised"}

\* C38: after stop() has returned, whether or not the deregistration
\* succeeded, a start() sends its REGISTER on an open socket and is not
\* rejected as already started: it ends registered unless the server's
\* answers make it fail
C38_StartAfterStopRegisters ==
    StartAfterStopEnded =>
        /\ ev.out \notin {"already", "valueerror"}
        /\ sock = "open"

\* start, stop with the deregistration acknowledged, start: the REGISTER
\* went to the closed socket and select raised
C38_Witness ==
    /\ StartAfterStopEnded /\ ops = 3
    /\ ev.kind = "raised" /\ ev.out = "valueerror"
    /\ sock = "closed" /\ status # "registered"
    /\ register_loop.st = "cancelled"

\* start, stop with the deregistration timed out, start: rejected
C38_RejectedAfterFailedStop ==
    /\ StartAfterStopEnded /\ ops = 3
    /\ ev.kind = "start_failed" /\ ev.out = "already"
    /\ sock = "open" /\ status = "failed"

\* ------------------------------------------- the coordinator is replaced
\* the endpoint of coordinator v is running: registered, its tasks alive
EndpointRuns(u, v) == u.voips[v].pc = "registered"

\* the sockets bound to the local SIP port
BoundEndpoints == {v \in 1..MaxVoips : updater.voips[v].bound}

\* C39: when the refresh replaces the coordinator because the SIP settings
\* changed, the previous coordinator's endpoint is stopped: it does not run
\* and holds no socket on the local SIP port any more
C39_ReplacedIsStopped ==
    [][(updater'.voip # updater.voip /\ updater.voip # 0) =>
          /\ ~EndpointRuns(updater', updater.voip)
          /\ ~updater'.voips[updater.voip].bound]_vars

\* at most one socket is bound to the local SIP port
C39_OneEndpointOnPort == Cardinality(BoundEndpoints) <= 1

\* the replaced coordinator is registered on the port, the one that
\* replaced it has ended in bind's OSError
C39_Witness ==
    /\ updater.voip = 2
    /\ EndpointRuns(updater, 1) /\ updater.voips[1].bound
    /\ updater.voips[2].pc = "dead" /\ ~updater.voips[2].bound

\* ------------------------------------------------------- the port pool
\* the local RTP ports drawn for call o
PortsOf(o) == {call[o].clients[i].port : i \in DOMAIN call[o].clients}

\* C40: the ports of a call go back to the pool when the call ends: once
\* the call has left the call map none of its ports is in assigned_ports,
\* so that a later INVITE can be given them
C40_PortsReturned ==
    [][\A cid \in CallIds :
         (calls[cid] # NoCall /\ calls'[cid] = NoCall) =>
            PortsOf(calls[cid]) \cap assigned_ports' = {}]_vars

\* assigned_ports never loses a port
C40_AssignedOnlyGrows == [][assigned_ports \subseteq assigned_ports']_vars

\* a call with two media lines has ended and left the map, every task is at
\* rest, and both ports of the pool are still assigned
C40_Witness ==
    \E o \in Objs :
        /\ Removed(o) /\ call[o].state = "ended"
        /\ Cardinality(PortsOf(o)) = 2
        /\ PortsOf(o) \subseteq assigned_ports /\ assigned_ports = Ports
        /\ \A t \in FrameTasks : frame[t].pc = "idle"
        /\ \A i \in DOMAIN call[o].clients : ~call[o].clients[i].started
=============================================================================
